---- MODULE Spec2Model ----
(***************************************************************************)
(* Verification model of the NEANDER-X back end of lcc                     *)
(* (src/build/neanderx.c): the lburg-generated tree labeler (_label, the   *)
(* closure functions, _rule, _kids, _nts), the pseudo-register slot table  *)
(* (get_vreg_slot) and the frame layout and prologue/epilogue emitted by   *)
(* function().                                                             *)
(***************************************************************************)
EXTENDS Integers, Sequences, FiniteSets, TLC

VARIABLES
  nodes,          \* the IR nodes handed in by the front end: index -> [op, kids, v, cse]
  root,           \* the node _label is called on
  x_state,        \* p->x.state of every node: the label record (alloc = FALSE: NULL)
  stack,          \* the activations of _label, innermost last: [a, i]
  pc,             \* "idle", "run", "done", "fatal"
  junk,           \* the bits allocate() returns in the fields _label does not set
  kids_out,       \* the result of the last _kids call: [p, eruleno, fatal, writes]
  vreg_symbols,   \* the slot table: index 0..MAX_VREG_SLOTS-1 -> Symbol or NULL
  next_vreg_slot, \* the number of slots handed out
  fpc,            \* "idle": between functions; "gencode", "emitcode": function() is inside that call
  f_in,           \* the arguments of the current function(): [ncalls, params, maxoffset],
                  \* and whether a function was compiled before it (later)
  sym_x,          \* x.offset and x.name of callee[i] and caller[i]
  out,            \* the instruction lines function() has printed for the current function
  call,           \* the last get_vreg_slot call: [reg, ret, touched]
  refs,           \* the Symbols referenced since function() was entered, with their first slot
  machine,        \* the NEANDER-X registers and stack while the printed function runs
  offset,         \* the bytes of locals allocated in the current frame (gen.c's offset)
  locals,         \* the locals announced since function() reset offset: [size, align, x]
  site,           \* the words the ARG statements of the call site under way have pushed
  cpu,            \* the machine while the code of one expression runs: [ip, prog, AC, C, stk, mem]
  text            \* what defconst and the emitter printed: [lines, aborted, last]

labelVars == <<nodes, root, x_state, stack, pc, junk, kids_out>>
frameVars == <<offset, locals>>
dataVars == <<cpu, text>>
emitVars == <<site, dataVars>>
funcVars == <<vreg_symbols, next_vreg_slot, fpc, f_in, sym_x, out, call, refs, machine>>
otherVars == <<funcVars, frameVars, emitVars>>
vars == <<labelVars, otherVars>>

(* ---------------------------------------------------------------------- *)
(* Nonterminals, operators and the cost sentinel                          *)
(* ---------------------------------------------------------------------- *)
_stmt_NT == 1
_reg_NT == 2
_con2_NT == 3
_con1_NT == 4
_con4_NT == 5
_conN_NT == 6
_addr_NT == 7
_faddr_NT == 8
NTs == _stmt_NT.._faddr_NT

(* the value every cost starts with ("infinite") *)
MaxCost == 32767
(* LBURG_MAX, what range() answers for a constant outside [lo, hi] *)
LBURG_MAX == 32767

(* operators named by the model's inputs (the case labels of _label) *)
ARGB == 41
ASGNB == 57
INDIRB == 73
CALLB == 217
VREGP == 711
CNSTI1 == 1045
CNSTU1 == 1046
CNSTI2 == 2069
CNSTI4 == 4117
ADDRGP2 == 2311
ADDRLP2 == 2343
INDIRI1 == 1093
INDIRU1 == 1094
INDIRI2 == 2117
NEGI1 == 1221
NEGI2 == 2245
INDIRU2 == 2118
INDIRP2 == 2119
LOADI1 == 1253
ADDI1 == 1333
ADDU1 == 1334
LOADU1 == 1254
ADDI2 == 2357
ADDP2 == 2359
ASGNI1 == 1077
ASGNU1 == 1078
ASGNP2 == 2103
ADDU2 == 2358
SUBI2 == 2373
SUBU2 == 2374
MULI2 == 2517
MULU2 == 2518
BANDI2 == 2437
BANDU2 == 2438
BORI2 == 2469
BORU2 == 2470
BXORI2 == 2485
BXORU2 == 2486
ADDRFP2 == 2327
(* an operator of the front end the grammar has no case for (ADDF4) *)
ADDF4 == 4401

(* _nts[r]: the nonterminals the operands of external rule r must derive *)

_nts ==
  <<<<>>, <<>>, <<>>, <<>>, <<>>, <<>>, <<>>, <<>>,
    <<>>, <<>>, <<>>, <<3>>, <<3>>, <<>>, <<>>, <<>>,
    <<>>, <<>>, <<>>, <<>>, <<>>, <<>>, <<>>, <<2>>,
    <<2>>, <<2>>, <<2>>, <<2>>, <<2>>, <<2>>, <<2>>, <<>>,
    <<>>, <<>>, <<>>, <<>>, <<>>, <<>>, <<>>, <<>>,
    <<>>, <<4>>, <<3>>, <<5>>, <<>>, <<>>, <<>>, <<>>,
    <<>>, <<>>, <<8>>, <<>>, <<>>, <<>>, <<8>>, <<8>>,
    <<8>>, <<8>>, <<8>>, <<8, 2>>, <<8, 2>>, <<8, 2>>, <<8, 2>>, <<8, 2>>,
    <<7>>, <<7>>, <<7>>, <<7>>, <<7>>, <<7>>, <<7>>, <<7>>,
    <<7, 2>>, <<7, 2>>, <<7, 2>>, <<7, 2>>, <<7, 2>>, <<7, 2>>, <<7, 2>>, <<7, 2>>,
    <<7, 2>>, <<7, 2>>, <<7, 2>>, <<7, 2>>, <<2, 7>>, <<2, 7>>, <<7, 2, 2>>, <<7, 2, 2>>,
    <<7, 2, 2>>, <<7, 2, 2>>, <<2, 7, 2>>, <<2, 7, 2>>, <<7, 7>>, <<7, 7>>, <<7, 7>>, <<7, 7>>,
    <<7, 7>>, <<2, 2>>, <<2, 2>>, <<2, 7>>, <<2, 7>>, <<2, 7>>, <<2, 6>>, <<2, 6>>,
    <<7, 7>>, <<7, 7>>, <<7, 7>>, <<7, 7>>, <<7, 7>>, <<2, 2>>, <<2, 2>>, <<2, 7>>,
    <<2, 7>>, <<2, 7>>, <<2, 6>>, <<2, 6>>, <<2>>, <<8, 3>>, <<8, 3>>, <<8, 3>>,
    <<8, 8>>, <<8, 8>>, <<8, 8>>, <<7, 3>>, <<7, 3>>, <<7, 7>>, <<7, 7>>, <<2, 7>>,
    <<2, 7>>, <<2, 8>>, <<2, 8>>, <<2, 8>>, <<2, 3>>, <<2, 3>>, <<2, 2>>, <<2, 2>>,
    <<2, 2>>, <<7, 2>>, <<8, 3>>, <<8, 3>>, <<8, 8>>, <<8, 8>>, <<7, 3>>, <<7, 3>>,
    <<7, 7>>, <<7, 7>>, <<2, 7>>, <<2, 7>>, <<2, 8>>, <<2, 8>>, <<2, 3>>, <<2, 3>>,
    <<2, 2>>, <<2, 2>>, <<2>>, <<2, 2>>, <<2, 2>>, <<2, 2>>, <<2, 2>>, <<2, 2>>,
    <<2, 2>>, <<2, 2>>, <<2, 2>>, <<2, 2>>, <<2, 2>>, <<2, 2>>, <<2, 2>>, <<8, 8>>,
    <<8, 8>>, <<2, 8>>, <<2, 8>>, <<2, 2>>, <<2, 2>>, <<2, 2>>, <<2, 2>>, <<8, 8>>,
    <<8, 8>>, <<2, 8>>, <<2, 8>>, <<7, 7>>, <<7, 7>>, <<2, 2>>, <<2, 2>>, <<2, 7>>,
    <<2, 7>>, <<7, 7>>, <<7, 7>>, <<2, 2>>, <<2, 2>>, <<2, 7>>, <<2, 7>>, <<7, 7>>,
    <<7, 7>>, <<2, 2>>, <<2, 2>>, <<2, 7>>, <<2, 7>>, <<2>>, <<2>>, <<2, 2>>,
    <<2, 2>>, <<8, 8>>, <<8, 8>>, <<2, 8>>, <<2, 8>>, <<7, 7>>, <<7, 7>>, <<2, 3>>,
    <<2, 3>>, <<8, 3>>, <<8, 3>>, <<2, 7>>, <<2, 7>>, <<2, 2>>, <<2, 2>>, <<8, 8>>,
    <<8, 8>>, <<2, 8>>, <<2, 8>>, <<7, 7>>, <<7, 7>>, <<2, 3>>, <<2, 3>>, <<8, 3>>,
    <<8, 3>>, <<2, 7>>, <<2, 7>>, <<2, 2>>, <<2, 2>>, <<8, 8>>, <<8, 8>>, <<2, 8>>,
    <<2, 8>>, <<7, 7>>, <<7, 7>>, <<2, 3>>, <<2, 3>>, <<8, 3>>, <<8, 3>>, <<2, 7>>,
    <<2, 7>>, <<2>>, <<2>>, <<2, 6>>, <<2, 6>>, <<2, 6>>, <<2, 6>>, <<2, 2>>,
    <<2, 2>>, <<2, 2>>, <<2, 2>>, <<2, 6>>, <<2, 6>>, <<2, 6>>, <<2, 6>>, <<2, 2>>,
    <<2, 2>>, <<2, 2>>, <<2, 2>>, <<2>>, <<2>>, <<2>>, <<2>>, <<2>>,
    <<2>>, <<2>>, <<2>>, <<7>>, <<7>>, <<2>>, <<2>>, <<2>>,
    <<2>>, <<2>>, <<2>>, <<2>>, <<2>>, <<>>, <<7>>, <<2>>,
    <<2, 2>>, <<2, 2>>, <<2, 7>>, <<2, 7>>, <<2, 2>>, <<2, 2>>, <<2, 7>>, <<2, 7>>,
    <<2, 2>>, <<2, 7>>, <<2, 2>>, <<2, 7>>, <<2, 2>>, <<2, 7>>, <<2, 2>>, <<2, 7>>,
    <<2, 2>>, <<2, 7>>, <<2, 2>>, <<2, 7>>, <<2, 2>>, <<2, 7>>, <<2, 2>>, <<2, 7>>,
    <<8, 8>>, <<8, 8>>, <<2, 8>>, <<2, 8>>, <<2, 2>>, <<2, 2>>, <<8, 8>>, <<8, 8>>,
    <<2, 8>>, <<2, 8>>, <<2, 2>>, <<2, 2>>, <<8, 8>>, <<8, 8>>, <<2, 8>>, <<2, 8>>,
    <<2, 2>>, <<2, 2>>, <<8, 8>>, <<8, 8>>, <<2, 8>>, <<2, 8>>, <<2, 2>>, <<2, 2>>,
    <<8, 8>>, <<8, 8>>, <<2, 8>>, <<2, 8>>, <<2, 2>>, <<2, 2>>, <<8, 8>>, <<8, 8>>,
    <<2, 8>>, <<2, 8>>, <<2, 2>>, <<2, 2>>, <<8, 3>>, <<8, 3>>, <<2, 3>>, <<2, 3>>,
    <<8, 3>>, <<8, 3>>, <<2, 3>>, <<2, 3>>, <<8, 3>>, <<8, 3>>, <<2, 3>>, <<2, 3>>,
    <<8, 3>>, <<8, 3>>, <<2, 3>>, <<2, 3>>, <<8, 3>>, <<8, 3>>, <<2, 3>>, <<2, 3>>,
    <<8, 3>>, <<8, 3>>, <<2, 3>>, <<2, 3>>, <<2>>, <<2>>, <<2>>, <<2>>,
    <<2>>, <<2>>, <<2>>, <<2>>, <<7>>, <<7>>, <<7>>, <<7>>,
    <<7>>, <<7>>, <<7>>, <<7>>, <<7>>, <<2>>, <<2>>, <<2>>,
    <<2>>, <<2>>, <<2>>, <<2>>, <<2>>, <<>>, <<2>>, <<2>>,
    <<2>>, <<2>>, <<2>>, <<2>>, <<2>>, <<2>>, <<2>>>>

(* _decode_stmt: internal rule number (index, from 0) -> external rule number *)

_decode_stmt ==
  <<0, 24, 25, 26, 27, 28, 29, 30, 31, 60, 61, 62, 63, 64, 73, 74, 75, 76, 77, 78,
    79, 80, 87, 88, 89, 90, 91, 92, 278, 279, 280, 281, 282, 283, 284, 285, 286, 287, 288, 289,
    290, 291, 292, 293, 294, 295, 296, 297, 298, 299, 300, 301, 302, 303, 304, 305, 306, 307, 308, 309,
    310, 311, 312, 313, 314, 315, 316, 317, 318, 319, 320, 321, 322, 323, 324, 325, 326, 327, 328, 329,
    330, 331, 332, 333, 334, 335, 336, 337, 338, 339, 340, 341, 342, 343, 344, 345, 346, 347, 348, 349,
    350, 351, 352, 353, 354, 355, 356, 357, 358, 359, 360, 361, 362, 363, 364, 365, 366, 367, 368, 369,
    370, 371, 372, 381, 382, 383, 384, 385, 386, 387, 388, 389, 390, 399>>

(* _decode_reg: internal rule number (index, from 0) -> external rule number *)

_decode_reg ==
  <<0, 1, 2, 3, 4, 5, 6, 7, 8, 9, 10, 11, 12, 13, 14, 15, 16, 17, 18, 19,
    20, 21, 22, 23, 42, 43, 44, 52, 53, 54, 55, 56, 57, 58, 59, 65, 66, 67, 68, 69,
    70, 71, 72, 81, 82, 83, 84, 85, 86, 93, 94, 95, 96, 97, 98, 99, 100, 101, 102, 103,
    104, 105, 106, 107, 108, 109, 110, 111, 112, 113, 114, 115, 116, 117, 118, 119, 120, 121, 122, 123,
    124, 125, 126, 127, 128, 129, 130, 131, 132, 133, 134, 135, 136, 137, 139, 140, 141, 142, 143, 144,
    145, 146, 147, 148, 149, 150, 151, 152, 153, 154, 155, 156, 157, 158, 159, 160, 161, 162, 163, 164,
    165, 166, 167, 168, 169, 170, 171, 172, 173, 174, 175, 176, 177, 178, 179, 180, 181, 182, 183, 184,
    185, 186, 187, 188, 189, 190, 191, 192, 193, 194, 195, 196, 197, 198, 199, 200, 201, 202, 203, 204,
    205, 206, 207, 208, 209, 210, 211, 212, 213, 214, 215, 216, 217, 218, 219, 220, 221, 222, 223, 224,
    225, 226, 227, 228, 229, 230, 231, 232, 233, 234, 235, 236, 237, 238, 239, 240, 241, 242, 243, 244,
    245, 246, 247, 248, 249, 250, 251, 252, 253, 254, 255, 256, 257, 258, 259, 260, 261, 262, 263, 264,
    265, 266, 267, 268, 269, 270, 271, 272, 273, 274, 275, 276, 277, 373, 374, 375, 376, 377, 378, 379,
    380, 391, 392, 393, 394, 395, 396, 397, 398>>

(* _decode_con2: internal rule number (index, from 0) -> external rule number *)

_decode_con2 ==
  <<0, 34, 35, 36>>

(* _decode_con1: internal rule number (index, from 0) -> external rule number *)

_decode_con1 ==
  <<0, 32, 33>>

(* _decode_con4: internal rule number (index, from 0) -> external rule number *)

_decode_con4 ==
  <<0, 37, 38, 39>>

(* _decode_conN: internal rule number (index, from 0) -> external rule number *)

_decode_conN ==
  <<0, 40, 41>>

(* _decode_addr: internal rule number (index, from 0) -> external rule number *)

_decode_addr ==
  <<0, 45, 46, 51, 138>>

(* _decode_faddr: internal rule number (index, from 0) -> external rule number *)

_decode_faddr ==
  <<0, 47, 48, 49, 50>>

(* _string[r]: external rule r as "lhs: pattern"; a pattern is an operator over
   patterns (op # 0) or a nonterminal (nt # 0) *)

_string ==
  <<
    [lhs |-> 2, pat |-> [op |-> 1093, nt |-> 0, kids |-> <<[op |-> 711, nt |-> 0, kids |-> <<>>]>>]],  \* 1 reg: INDIRI1(VREGP)
    [lhs |-> 2, pat |-> [op |-> 1094, nt |-> 0, kids |-> <<[op |-> 711, nt |-> 0, kids |-> <<>>]>>]],  \* 2 reg: INDIRU1(VREGP)
    [lhs |-> 2, pat |-> [op |-> 2117, nt |-> 0, kids |-> <<[op |-> 711, nt |-> 0, kids |-> <<>>]>>]],  \* 3 reg: INDIRI2(VREGP)
    [lhs |-> 2, pat |-> [op |-> 2118, nt |-> 0, kids |-> <<[op |-> 711, nt |-> 0, kids |-> <<>>]>>]],  \* 4 reg: INDIRU2(VREGP)
    [lhs |-> 2, pat |-> [op |-> 2119, nt |-> 0, kids |-> <<[op |-> 711, nt |-> 0, kids |-> <<>>]>>]],  \* 5 reg: INDIRP2(VREGP)
    [lhs |-> 2, pat |-> [op |-> 4165, nt |-> 0, kids |-> <<[op |-> 711, nt |-> 0, kids |-> <<>>]>>]],  \* 6 reg: INDIRI4(VREGP)
    [lhs |-> 2, pat |-> [op |-> 4166, nt |-> 0, kids |-> <<[op |-> 711, nt |-> 0, kids |-> <<>>]>>]],  \* 7 reg: INDIRU4(VREGP)
    [lhs |-> 2, pat |-> [op |-> 4167, nt |-> 0, kids |-> <<[op |-> 711, nt |-> 0, kids |-> <<>>]>>]],  \* 8 reg: INDIRP4(VREGP)
    [lhs |-> 2, pat |-> [op |-> 2357, nt |-> 0, kids |-> <<[op |-> 2117, nt |-> 0, kids |-> <<[op |-> 711, nt |-> 0, kids |-> <<>>]>>], [op |-> 2117, nt |-> 0, kids |-> <<[op |-> 711, nt |-> 0, kids |-> <<>>]>>]>>]],  \* 9 reg: ADDI2(INDIRI2(VREGP),INDIRI2(VREGP))
    [lhs |-> 2, pat |-> [op |-> 2358, nt |-> 0, kids |-> <<[op |-> 2118, nt |-> 0, kids |-> <<[op |-> 711, nt |-> 0, kids |-> <<>>]>>], [op |-> 2118, nt |-> 0, kids |-> <<[op |-> 711, nt |-> 0, kids |-> <<>>]>>]>>]],  \* 10 reg: ADDU2(INDIRU2(VREGP),INDIRU2(VREGP))
    [lhs |-> 2, pat |-> [op |-> 2359, nt |-> 0, kids |-> <<[op |-> 2119, nt |-> 0, kids |-> <<[op |-> 711, nt |-> 0, kids |-> <<>>]>>], [op |-> 2117, nt |-> 0, kids |-> <<[op |-> 711, nt |-> 0, kids |-> <<>>]>>]>>]],  \* 11 reg: ADDP2(INDIRP2(VREGP),INDIRI2(VREGP))
    [lhs |-> 2, pat |-> [op |-> 2357, nt |-> 0, kids |-> <<[op |-> 2117, nt |-> 0, kids |-> <<[op |-> 711, nt |-> 0, kids |-> <<>>]>>], [op |-> 0, nt |-> 3, kids |-> <<>>]>>]],  \* 12 reg: ADDI2(INDIRI2(VREGP),con2)
    [lhs |-> 2, pat |-> [op |-> 2358, nt |-> 0, kids |-> <<[op |-> 2118, nt |-> 0, kids |-> <<[op |-> 711, nt |-> 0, kids |-> <<>>]>>], [op |-> 0, nt |-> 3, kids |-> <<>>]>>]],  \* 13 reg: ADDU2(INDIRU2(VREGP),con2)
    [lhs |-> 2, pat |-> [op |-> 2517, nt |-> 0, kids |-> <<[op |-> 2117, nt |-> 0, kids |-> <<[op |-> 711, nt |-> 0, kids |-> <<>>]>>], [op |-> 2117, nt |-> 0, kids |-> <<[op |-> 711, nt |-> 0, kids |-> <<>>]>>]>>]],  \* 14 reg: MULI2(INDIRI2(VREGP),INDIRI2(VREGP))
    [lhs |-> 2, pat |-> [op |-> 2518, nt |-> 0, kids |-> <<[op |-> 2118, nt |-> 0, kids |-> <<[op |-> 711, nt |-> 0, kids |-> <<>>]>>], [op |-> 2118, nt |-> 0, kids |-> <<[op |-> 711, nt |-> 0, kids |-> <<>>]>>]>>]],  \* 15 reg: MULU2(INDIRU2(VREGP),INDIRU2(VREGP))
    [lhs |-> 2, pat |-> [op |-> 2373, nt |-> 0, kids |-> <<[op |-> 2117, nt |-> 0, kids |-> <<[op |-> 711, nt |-> 0, kids |-> <<>>]>>], [op |-> 2117, nt |-> 0, kids |-> <<[op |-> 711, nt |-> 0, kids |-> <<>>]>>]>>]],  \* 16 reg: SUBI2(INDIRI2(VREGP),INDIRI2(VREGP))
    [lhs |-> 2, pat |-> [op |-> 2374, nt |-> 0, kids |-> <<[op |-> 2118, nt |-> 0, kids |-> <<[op |-> 711, nt |-> 0, kids |-> <<>>]>>], [op |-> 2118, nt |-> 0, kids |-> <<[op |-> 711, nt |-> 0, kids |-> <<>>]>>]>>]],  \* 17 reg: SUBU2(INDIRU2(VREGP),INDIRU2(VREGP))
    [lhs |-> 2, pat |-> [op |-> 2485, nt |-> 0, kids |-> <<[op |-> 2117, nt |-> 0, kids |-> <<[op |-> 711, nt |-> 0, kids |-> <<>>]>>], [op |-> 2117, nt |-> 0, kids |-> <<[op |-> 711, nt |-> 0, kids |-> <<>>]>>]>>]],  \* 18 reg: BXORI2(INDIRI2(VREGP),INDIRI2(VREGP))
    [lhs |-> 2, pat |-> [op |-> 2486, nt |-> 0, kids |-> <<[op |-> 2118, nt |-> 0, kids |-> <<[op |-> 711, nt |-> 0, kids |-> <<>>]>>], [op |-> 2118, nt |-> 0, kids |-> <<[op |-> 711, nt |-> 0, kids |-> <<>>]>>]>>]],  \* 19 reg: BXORU2(INDIRU2(VREGP),INDIRU2(VREGP))
    [lhs |-> 2, pat |-> [op |-> 2437, nt |-> 0, kids |-> <<[op |-> 2117, nt |-> 0, kids |-> <<[op |-> 711, nt |-> 0, kids |-> <<>>]>>], [op |-> 2117, nt |-> 0, kids |-> <<[op |-> 711, nt |-> 0, kids |-> <<>>]>>]>>]],  \* 20 reg: BANDI2(INDIRI2(VREGP),INDIRI2(VREGP))
    [lhs |-> 2, pat |-> [op |-> 2438, nt |-> 0, kids |-> <<[op |-> 2118, nt |-> 0, kids |-> <<[op |-> 711, nt |-> 0, kids |-> <<>>]>>], [op |-> 2118, nt |-> 0, kids |-> <<[op |-> 711, nt |-> 0, kids |-> <<>>]>>]>>]],  \* 21 reg: BANDU2(INDIRU2(VREGP),INDIRU2(VREGP))
    [lhs |-> 2, pat |-> [op |-> 2469, nt |-> 0, kids |-> <<[op |-> 2117, nt |-> 0, kids |-> <<[op |-> 711, nt |-> 0, kids |-> <<>>]>>], [op |-> 2117, nt |-> 0, kids |-> <<[op |-> 711, nt |-> 0, kids |-> <<>>]>>]>>]],  \* 22 reg: BORI2(INDIRI2(VREGP),INDIRI2(VREGP))
    [lhs |-> 2, pat |-> [op |-> 2470, nt |-> 0, kids |-> <<[op |-> 2118, nt |-> 0, kids |-> <<[op |-> 711, nt |-> 0, kids |-> <<>>]>>], [op |-> 2118, nt |-> 0, kids |-> <<[op |-> 711, nt |-> 0, kids |-> <<>>]>>]>>]],  \* 23 reg: BORU2(INDIRU2(VREGP),INDIRU2(VREGP))
    [lhs |-> 1, pat |-> [op |-> 1077, nt |-> 0, kids |-> <<[op |-> 711, nt |-> 0, kids |-> <<>>], [op |-> 0, nt |-> 2, kids |-> <<>>]>>]],  \* 24 stmt: ASGNI1(VREGP,reg)
    [lhs |-> 1, pat |-> [op |-> 1078, nt |-> 0, kids |-> <<[op |-> 711, nt |-> 0, kids |-> <<>>], [op |-> 0, nt |-> 2, kids |-> <<>>]>>]],  \* 25 stmt: ASGNU1(VREGP,reg)
    [lhs |-> 1, pat |-> [op |-> 2101, nt |-> 0, kids |-> <<[op |-> 711, nt |-> 0, kids |-> <<>>], [op |-> 0, nt |-> 2, kids |-> <<>>]>>]],  \* 26 stmt: ASGNI2(VREGP,reg)
    [lhs |-> 1, pat |-> [op |-> 2102, nt |-> 0, kids |-> <<[op |-> 711, nt |-> 0, kids |-> <<>>], [op |-> 0, nt |-> 2, kids |-> <<>>]>>]],  \* 27 stmt: ASGNU2(VREGP,reg)
    [lhs |-> 1, pat |-> [op |-> 2103, nt |-> 0, kids |-> <<[op |-> 711, nt |-> 0, kids |-> <<>>], [op |-> 0, nt |-> 2, kids |-> <<>>]>>]],  \* 28 stmt: ASGNP2(VREGP,reg)
    [lhs |-> 1, pat |-> [op |-> 4149, nt |-> 0, kids |-> <<[op |-> 711, nt |-> 0, kids |-> <<>>], [op |-> 0, nt |-> 2, kids |-> <<>>]>>]],  \* 29 stmt: ASGNI4(VREGP,reg)
    [lhs |-> 1, pat |-> [op |-> 4150, nt |-> 0, kids |-> <<[op |-> 711, nt |-> 0, kids |-> <<>>], [op |-> 0, nt |-> 2, kids |-> <<>>]>>]],  \* 30 stmt: ASGNU4(VREGP,reg)
    [lhs |-> 1, pat |-> [op |-> 4151, nt |-> 0, kids |-> <<[op |-> 711, nt |-> 0, kids |-> <<>>], [op |-> 0, nt |-> 2, kids |-> <<>>]>>]],  \* 31 stmt: ASGNP4(VREGP,reg)
    [lhs |-> 4, pat |-> [op |-> 1045, nt |-> 0, kids |-> <<>>]],  \* 32 con1: CNSTI1
    [lhs |-> 4, pat |-> [op |-> 1046, nt |-> 0, kids |-> <<>>]],  \* 33 con1: CNSTU1
    [lhs |-> 3, pat |-> [op |-> 2069, nt |-> 0, kids |-> <<>>]],  \* 34 con2: CNSTI2
    [lhs |-> 3, pat |-> [op |-> 2070, nt |-> 0, kids |-> <<>>]],  \* 35 con2: CNSTU2
    [lhs |-> 3, pat |-> [op |-> 2071, nt |-> 0, kids |-> <<>>]],  \* 36 con2: CNSTP2
    [lhs |-> 5, pat |-> [op |-> 4117, nt |-> 0, kids |-> <<>>]],  \* 37 con4: CNSTI4
    [lhs |-> 5, pat |-> [op |-> 4118, nt |-> 0, kids |-> <<>>]],  \* 38 con4: CNSTU4
    [lhs |-> 5, pat |-> [op |-> 4119, nt |-> 0, kids |-> <<>>]],  \* 39 con4: CNSTP4
    [lhs |-> 6, pat |-> [op |-> 1045, nt |-> 0, kids |-> <<>>]],  \* 40 conN: CNSTI1
    [lhs |-> 6, pat |-> [op |-> 1046, nt |-> 0, kids |-> <<>>]],  \* 41 conN: CNSTU1
    [lhs |-> 2, pat |-> [op |-> 0, nt |-> 4, kids |-> <<>>]],  \* 42 reg: con1
    [lhs |-> 2, pat |-> [op |-> 0, nt |-> 3, kids |-> <<>>]],  \* 43 reg: con2
    [lhs |-> 2, pat |-> [op |-> 0, nt |-> 5, kids |-> <<>>]],  \* 44 reg: con4
    [lhs |-> 7, pat |-> [op |-> 2311, nt |-> 0, kids |-> <<>>]],  \* 45 addr: ADDRGP2
    [lhs |-> 7, pat |-> [op |-> 4359, nt |-> 0, kids |-> <<>>]],  \* 46 addr: ADDRGP4
    [lhs |-> 8, pat |-> [op |-> 2327, nt |-> 0, kids |-> <<>>]],  \* 47 faddr: ADDRFP2
    [lhs |-> 8, pat |-> [op |-> 2343, nt |-> 0, kids |-> <<>>]],  \* 48 faddr: ADDRLP2
    [lhs |-> 8, pat |-> [op |-> 4375, nt |-> 0, kids |-> <<>>]],  \* 49 faddr: ADDRFP4
    [lhs |-> 8, pat |-> [op |-> 4391, nt |-> 0, kids |-> <<>>]],  \* 50 faddr: ADDRLP4
    [lhs |-> 7, pat |-> [op |-> 0, nt |-> 8, kids |-> <<>>]],  \* 51 addr: faddr
    [lhs |-> 2, pat |-> [op |-> 2311, nt |-> 0, kids |-> <<>>]],  \* 52 reg: ADDRGP2
    [lhs |-> 2, pat |-> [op |-> 2327, nt |-> 0, kids |-> <<>>]],  \* 53 reg: ADDRFP2
    [lhs |-> 2, pat |-> [op |-> 2343, nt |-> 0, kids |-> <<>>]],  \* 54 reg: ADDRLP2
    [lhs |-> 2, pat |-> [op |-> 1093, nt |-> 0, kids |-> <<[op |-> 0, nt |-> 8, kids |-> <<>>]>>]],  \* 55 reg: INDIRI1(faddr)
    [lhs |-> 2, pat |-> [op |-> 1094, nt |-> 0, kids |-> <<[op |-> 0, nt |-> 8, kids |-> <<>>]>>]],  \* 56 reg: INDIRU1(faddr)
    [lhs |-> 2, pat |-> [op |-> 2117, nt |-> 0, kids |-> <<[op |-> 0, nt |-> 8, kids |-> <<>>]>>]],  \* 57 reg: INDIRI2(faddr)
    [lhs |-> 2, pat |-> [op |-> 2118, nt |-> 0, kids |-> <<[op |-> 0, nt |-> 8, kids |-> <<>>]>>]],  \* 58 reg: INDIRU2(faddr)
    [lhs |-> 2, pat |-> [op |-> 2119, nt |-> 0, kids |-> <<[op |-> 0, nt |-> 8, kids |-> <<>>]>>]],  \* 59 reg: INDIRP2(faddr)
    [lhs |-> 1, pat |-> [op |-> 1077, nt |-> 0, kids |-> <<[op |-> 0, nt |-> 8, kids |-> <<>>], [op |-> 0, nt |-> 2, kids |-> <<>>]>>]],  \* 60 stmt: ASGNI1(faddr,reg)
    [lhs |-> 1, pat |-> [op |-> 1078, nt |-> 0, kids |-> <<[op |-> 0, nt |-> 8, kids |-> <<>>], [op |-> 0, nt |-> 2, kids |-> <<>>]>>]],  \* 61 stmt: ASGNU1(faddr,reg)
    [lhs |-> 1, pat |-> [op |-> 2101, nt |-> 0, kids |-> <<[op |-> 0, nt |-> 8, kids |-> <<>>], [op |-> 0, nt |-> 2, kids |-> <<>>]>>]],  \* 62 stmt: ASGNI2(faddr,reg)
    [lhs |-> 1, pat |-> [op |-> 2102, nt |-> 0, kids |-> <<[op |-> 0, nt |-> 8, kids |-> <<>>], [op |-> 0, nt |-> 2, kids |-> <<>>]>>]],  \* 63 stmt: ASGNU2(faddr,reg)
    [lhs |-> 1, pat |-> [op |-> 2103, nt |-> 0, kids |-> <<[op |-> 0, nt |-> 8, kids |-> <<>>], [op |-> 0, nt |-> 2, kids |-> <<>>]>>]],  \* 64 stmt: ASGNP2(faddr,reg)
    [lhs |-> 2, pat |-> [op |-> 1093, nt |-> 0, kids |-> <<[op |-> 0, nt |-> 7, kids |-> <<>>]>>]],  \* 65 reg: INDIRI1(addr)
    [lhs |-> 2, pat |-> [op |-> 1094, nt |-> 0, kids |-> <<[op |-> 0, nt |-> 7, kids |-> <<>>]>>]],  \* 66 reg: INDIRU1(addr)
    [lhs |-> 2, pat |-> [op |-> 2117, nt |-> 0, kids |-> <<[op |-> 0, nt |-> 7, kids |-> <<>>]>>]],  \* 67 reg: INDIRI2(addr)
    [lhs |-> 2, pat |-> [op |-> 2118, nt |-> 0, kids |-> <<[op |-> 0, nt |-> 7, kids |-> <<>>]>>]],  \* 68 reg: INDIRU2(addr)
    [lhs |-> 2, pat |-> [op |-> 2119, nt |-> 0, kids |-> <<[op |-> 0, nt |-> 7, kids |-> <<>>]>>]],  \* 69 reg: INDIRP2(addr)
    [lhs |-> 2, pat |-> [op |-> 4165, nt |-> 0, kids |-> <<[op |-> 0, nt |-> 7, kids |-> <<>>]>>]],  \* 70 reg: INDIRI4(addr)
    [lhs |-> 2, pat |-> [op |-> 4166, nt |-> 0, kids |-> <<[op |-> 0, nt |-> 7, kids |-> <<>>]>>]],  \* 71 reg: INDIRU4(addr)
    [lhs |-> 2, pat |-> [op |-> 4167, nt |-> 0, kids |-> <<[op |-> 0, nt |-> 7, kids |-> <<>>]>>]],  \* 72 reg: INDIRP4(addr)
    [lhs |-> 1, pat |-> [op |-> 1077, nt |-> 0, kids |-> <<[op |-> 0, nt |-> 7, kids |-> <<>>], [op |-> 0, nt |-> 2, kids |-> <<>>]>>]],  \* 73 stmt: ASGNI1(addr,reg)
    [lhs |-> 1, pat |-> [op |-> 1078, nt |-> 0, kids |-> <<[op |-> 0, nt |-> 7, kids |-> <<>>], [op |-> 0, nt |-> 2, kids |-> <<>>]>>]],  \* 74 stmt: ASGNU1(addr,reg)
    [lhs |-> 1, pat |-> [op |-> 2101, nt |-> 0, kids |-> <<[op |-> 0, nt |-> 7, kids |-> <<>>], [op |-> 0, nt |-> 2, kids |-> <<>>]>>]],  \* 75 stmt: ASGNI2(addr,reg)
    [lhs |-> 1, pat |-> [op |-> 2102, nt |-> 0, kids |-> <<[op |-> 0, nt |-> 7, kids |-> <<>>], [op |-> 0, nt |-> 2, kids |-> <<>>]>>]],  \* 76 stmt: ASGNU2(addr,reg)
    [lhs |-> 1, pat |-> [op |-> 2103, nt |-> 0, kids |-> <<[op |-> 0, nt |-> 7, kids |-> <<>>], [op |-> 0, nt |-> 2, kids |-> <<>>]>>]],  \* 77 stmt: ASGNP2(addr,reg)
    [lhs |-> 1, pat |-> [op |-> 4149, nt |-> 0, kids |-> <<[op |-> 0, nt |-> 7, kids |-> <<>>], [op |-> 0, nt |-> 2, kids |-> <<>>]>>]],  \* 78 stmt: ASGNI4(addr,reg)
    [lhs |-> 1, pat |-> [op |-> 4150, nt |-> 0, kids |-> <<[op |-> 0, nt |-> 7, kids |-> <<>>], [op |-> 0, nt |-> 2, kids |-> <<>>]>>]],  \* 79 stmt: ASGNU4(addr,reg)
    [lhs |-> 1, pat |-> [op |-> 4151, nt |-> 0, kids |-> <<[op |-> 0, nt |-> 7, kids |-> <<>>], [op |-> 0, nt |-> 2, kids |-> <<>>]>>]],  \* 80 stmt: ASGNP4(addr,reg)
    [lhs |-> 2, pat |-> [op |-> 1093, nt |-> 0, kids |-> <<[op |-> 2357, nt |-> 0, kids |-> <<[op |-> 0, nt |-> 7, kids |-> <<>>], [op |-> 0, nt |-> 2, kids |-> <<>>]>>]>>]],  \* 81 reg: INDIRI1(ADDI2(addr,reg))
    [lhs |-> 2, pat |-> [op |-> 1094, nt |-> 0, kids |-> <<[op |-> 2357, nt |-> 0, kids |-> <<[op |-> 0, nt |-> 7, kids |-> <<>>], [op |-> 0, nt |-> 2, kids |-> <<>>]>>]>>]],  \* 82 reg: INDIRU1(ADDI2(addr,reg))
    [lhs |-> 2, pat |-> [op |-> 1093, nt |-> 0, kids |-> <<[op |-> 2359, nt |-> 0, kids |-> <<[op |-> 0, nt |-> 7, kids |-> <<>>], [op |-> 0, nt |-> 2, kids |-> <<>>]>>]>>]],  \* 83 reg: INDIRI1(ADDP2(addr,reg))
    [lhs |-> 2, pat |-> [op |-> 1094, nt |-> 0, kids |-> <<[op |-> 2359, nt |-> 0, kids |-> <<[op |-> 0, nt |-> 7, kids |-> <<>>], [op |-> 0, nt |-> 2, kids |-> <<>>]>>]>>]],  \* 84 reg: INDIRU1(ADDP2(addr,reg))
    [lhs |-> 2, pat |-> [op |-> 1093, nt |-> 0, kids |-> <<[op |-> 2359, nt |-> 0, kids |-> <<[op |-> 0, nt |-> 2, kids |-> <<>>], [op |-> 0, nt |-> 7, kids |-> <<>>]>>]>>]],  \* 85 reg: INDIRI1(ADDP2(reg,addr))
    [lhs |-> 2, pat |-> [op |-> 1094, nt |-> 0, kids |-> <<[op |-> 2359, nt |-> 0, kids |-> <<[op |-> 0, nt |-> 2, kids |-> <<>>], [op |-> 0, nt |-> 7, kids |-> <<>>]>>]>>]],  \* 86 reg: INDIRU1(ADDP2(reg,addr))
    [lhs |-> 1, pat |-> [op |-> 1077, nt |-> 0, kids |-> <<[op |-> 2357, nt |-> 0, kids |-> <<[op |-> 0, nt |-> 7, kids |-> <<>>], [op |-> 0, nt |-> 2, kids |-> <<>>]>>], [op |-> 0, nt |-> 2, kids |-> <<>>]>>]],  \* 87 stmt: ASGNI1(ADDI2(addr,reg),reg)
    [lhs |-> 1, pat |-> [op |-> 1078, nt |-> 0, kids |-> <<[op |-> 2357, nt |-> 0, kids |-> <<[op |-> 0, nt |-> 7, kids |-> <<>>], [op |-> 0, nt |-> 2, kids |-> <<>>]>>], [op |-> 0, nt |-> 2, kids |-> <<>>]>>]],  \* 88 stmt: ASGNU1(ADDI2(addr,reg),reg)
    [lhs |-> 1, pat |-> [op |-> 1077, nt |-> 0, kids |-> <<[op |-> 2359, nt |-> 0, kids |-> <<[op |-> 0, nt |-> 7, kids |-> <<>>], [op |-> 0, nt |-> 2, kids |-> <<>>]>>], [op |-> 0, nt |-> 2, kids |-> <<>>]>>]],  \* 89 stmt: ASGNI1(ADDP2(addr,reg),reg)
    [lhs |-> 1, pat |-> [op |-> 1078, nt |-> 0, kids |-> <<[op |-> 2359, nt |-> 0, kids |-> <<[op |-> 0, nt |-> 7, kids |-> <<>>], [op |-> 0, nt |-> 2, kids |-> <<>>]>>], [op |-> 0, nt |-> 2, kids |-> <<>>]>>]],  \* 90 stmt: ASGNU1(ADDP2(addr,reg),reg)
    [lhs |-> 1, pat |-> [op |-> 1077, nt |-> 0, kids |-> <<[op |-> 2359, nt |-> 0, kids |-> <<[op |-> 0, nt |-> 2, kids |-> <<>>], [op |-> 0, nt |-> 7, kids |-> <<>>]>>], [op |-> 0, nt |-> 2, kids |-> <<>>]>>]],  \* 91 stmt: ASGNI1(ADDP2(reg,addr),reg)
    [lhs |-> 1, pat |-> [op |-> 1078, nt |-> 0, kids |-> <<[op |-> 2359, nt |-> 0, kids |-> <<[op |-> 0, nt |-> 2, kids |-> <<>>], [op |-> 0, nt |-> 7, kids |-> <<>>]>>], [op |-> 0, nt |-> 2, kids |-> <<>>]>>]],  \* 92 stmt: ASGNU1(ADDP2(reg,addr),reg)
    [lhs |-> 2, pat |-> [op |-> 1333, nt |-> 0, kids |-> <<[op |-> 1093, nt |-> 0, kids |-> <<[op |-> 0, nt |-> 7, kids |-> <<>>]>>], [op |-> 1093, nt |-> 0, kids |-> <<[op |-> 0, nt |-> 7, kids |-> <<>>]>>]>>]],  \* 93 reg: ADDI1(INDIRI1(addr),INDIRI1(addr))
    [lhs |-> 2, pat |-> [op |-> 1334, nt |-> 0, kids |-> <<[op |-> 1094, nt |-> 0, kids |-> <<[op |-> 0, nt |-> 7, kids |-> <<>>]>>], [op |-> 1094, nt |-> 0, kids |-> <<[op |-> 0, nt |-> 7, kids |-> <<>>]>>]>>]],  \* 94 reg: ADDU1(INDIRU1(addr),INDIRU1(addr))
    [lhs |-> 2, pat |-> [op |-> 1333, nt |-> 0, kids |-> <<[op |-> 1094, nt |-> 0, kids |-> <<[op |-> 0, nt |-> 7, kids |-> <<>>]>>], [op |-> 1094, nt |-> 0, kids |-> <<[op |-> 0, nt |-> 7, kids |-> <<>>]>>]>>]],  \* 95 reg: ADDI1(INDIRU1(addr),INDIRU1(addr))
    [lhs |-> 2, pat |-> [op |-> 1333, nt |-> 0, kids |-> <<[op |-> 1253, nt |-> 0, kids |-> <<[op |-> 1094, nt |-> 0, kids |-> <<[op |-> 0, nt |-> 7, kids |-> <<>>]>>]>>], [op |-> 1253, nt |-> 0, kids |-> <<[op |-> 1094, nt |-> 0, kids |-> <<[op |-> 0, nt |-> 7, kids |-> <<>>]>>]>>]>>]],  \* 96 reg: ADDI1(LOADI1(INDIRU1(addr)),LOADI1(INDIRU1(addr)))
    [lhs |-> 2, pat |-> [op |-> 1334, nt |-> 0, kids |-> <<[op |-> 1254, nt |-> 0, kids |-> <<[op |-> 1094, nt |-> 0, kids |-> <<[op |-> 0, nt |-> 7, kids |-> <<>>]>>]>>], [op |-> 1254, nt |-> 0, kids |-> <<[op |-> 1094, nt |-> 0, kids |-> <<[op |-> 0, nt |-> 7, kids |-> <<>>]>>]>>]>>]],  \* 97 reg: ADDU1(LOADU1(INDIRU1(addr)),LOADU1(INDIRU1(addr)))
    [lhs |-> 2, pat |-> [op |-> 1333, nt |-> 0, kids |-> <<[op |-> 0, nt |-> 2, kids |-> <<>>], [op |-> 0, nt |-> 2, kids |-> <<>>]>>]],  \* 98 reg: ADDI1(reg,reg)
    [lhs |-> 2, pat |-> [op |-> 1334, nt |-> 0, kids |-> <<[op |-> 0, nt |-> 2, kids |-> <<>>], [op |-> 0, nt |-> 2, kids |-> <<>>]>>]],  \* 99 reg: ADDU1(reg,reg)
    [lhs |-> 2, pat |-> [op |-> 1333, nt |-> 0, kids |-> <<[op |-> 0, nt |-> 2, kids |-> <<>>], [op |-> 1093, nt |-> 0, kids |-> <<[op |-> 0, nt |-> 7, kids |-> <<>>]>>]>>]],  \* 100 reg: ADDI1(reg,INDIRI1(addr))
    [lhs |-> 2, pat |-> [op |-> 1334, nt |-> 0, kids |-> <<[op |-> 0, nt |-> 2, kids |-> <<>>], [op |-> 1094, nt |-> 0, kids |-> <<[op |-> 0, nt |-> 7, kids |-> <<>>]>>]>>]],  \* 101 reg: ADDU1(reg,INDIRU1(addr))
    [lhs |-> 2, pat |-> [op |-> 1333, nt |-> 0, kids |-> <<[op |-> 0, nt |-> 2, kids |-> <<>>], [op |-> 1094, nt |-> 0, kids |-> <<[op |-> 0, nt |-> 7, kids |-> <<>>]>>]>>]],  \* 102 reg: ADDI1(reg,INDIRU1(addr))
    [lhs |-> 2, pat |-> [op |-> 1333, nt |-> 0, kids |-> <<[op |-> 0, nt |-> 2, kids |-> <<>>], [op |-> 0, nt |-> 6, kids |-> <<>>]>>]],  \* 103 reg: ADDI1(reg,conN)
    [lhs |-> 2, pat |-> [op |-> 1334, nt |-> 0, kids |-> <<[op |-> 0, nt |-> 2, kids |-> <<>>], [op |-> 0, nt |-> 6, kids |-> <<>>]>>]],  \* 104 reg: ADDU1(reg,conN)
    [lhs |-> 2, pat |-> [op |-> 1349, nt |-> 0, kids |-> <<[op |-> 1093, nt |-> 0, kids |-> <<[op |-> 0, nt |-> 7, kids |-> <<>>]>>], [op |-> 1093, nt |-> 0, kids |-> <<[op |-> 0, nt |-> 7, kids |-> <<>>]>>]>>]],  \* 105 reg: SUBI1(INDIRI1(addr),INDIRI1(addr))
    [lhs |-> 2, pat |-> [op |-> 1350, nt |-> 0, kids |-> <<[op |-> 1094, nt |-> 0, kids |-> <<[op |-> 0, nt |-> 7, kids |-> <<>>]>>], [op |-> 1094, nt |-> 0, kids |-> <<[op |-> 0, nt |-> 7, kids |-> <<>>]>>]>>]],  \* 106 reg: SUBU1(INDIRU1(addr),INDIRU1(addr))
    [lhs |-> 2, pat |-> [op |-> 1349, nt |-> 0, kids |-> <<[op |-> 1094, nt |-> 0, kids |-> <<[op |-> 0, nt |-> 7, kids |-> <<>>]>>], [op |-> 1094, nt |-> 0, kids |-> <<[op |-> 0, nt |-> 7, kids |-> <<>>]>>]>>]],  \* 107 reg: SUBI1(INDIRU1(addr),INDIRU1(addr))
    [lhs |-> 2, pat |-> [op |-> 1349, nt |-> 0, kids |-> <<[op |-> 1253, nt |-> 0, kids |-> <<[op |-> 1094, nt |-> 0, kids |-> <<[op |-> 0, nt |-> 7, kids |-> <<>>]>>]>>], [op |-> 1253, nt |-> 0, kids |-> <<[op |-> 1094, nt |-> 0, kids |-> <<[op |-> 0, nt |-> 7, kids |-> <<>>]>>]>>]>>]],  \* 108 reg: SUBI1(LOADI1(INDIRU1(addr)),LOADI1(INDIRU1(addr)))
    [lhs |-> 2, pat |-> [op |-> 1350, nt |-> 0, kids |-> <<[op |-> 1254, nt |-> 0, kids |-> <<[op |-> 1094, nt |-> 0, kids |-> <<[op |-> 0, nt |-> 7, kids |-> <<>>]>>]>>], [op |-> 1254, nt |-> 0, kids |-> <<[op |-> 1094, nt |-> 0, kids |-> <<[op |-> 0, nt |-> 7, kids |-> <<>>]>>]>>]>>]],  \* 109 reg: SUBU1(LOADU1(INDIRU1(addr)),LOADU1(INDIRU1(addr)))
    [lhs |-> 2, pat |-> [op |-> 1349, nt |-> 0, kids |-> <<[op |-> 0, nt |-> 2, kids |-> <<>>], [op |-> 0, nt |-> 2, kids |-> <<>>]>>]],  \* 110 reg: SUBI1(reg,reg)
    [lhs |-> 2, pat |-> [op |-> 1350, nt |-> 0, kids |-> <<[op |-> 0, nt |-> 2, kids |-> <<>>], [op |-> 0, nt |-> 2, kids |-> <<>>]>>]],  \* 111 reg: SUBU1(reg,reg)
    [lhs |-> 2, pat |-> [op |-> 1349, nt |-> 0, kids |-> <<[op |-> 0, nt |-> 2, kids |-> <<>>], [op |-> 1093, nt |-> 0, kids |-> <<[op |-> 0, nt |-> 7, kids |-> <<>>]>>]>>]],  \* 112 reg: SUBI1(reg,INDIRI1(addr))
    [lhs |-> 2, pat |-> [op |-> 1350, nt |-> 0, kids |-> <<[op |-> 0, nt |-> 2, kids |-> <<>>], [op |-> 1094, nt |-> 0, kids |-> <<[op |-> 0, nt |-> 7, kids |-> <<>>]>>]>>]],  \* 113 reg: SUBU1(reg,INDIRU1(addr))
    [lhs |-> 2, pat |-> [op |-> 1349, nt |-> 0, kids |-> <<[op |-> 0, nt |-> 2, kids |-> <<>>], [op |-> 1094, nt |-> 0, kids |-> <<[op |-> 0, nt |-> 7, kids |-> <<>>]>>]>>]],  \* 114 reg: SUBI1(reg,INDIRU1(addr))
    [lhs |-> 2, pat |-> [op |-> 1349, nt |-> 0, kids |-> <<[op |-> 0, nt |-> 2, kids |-> <<>>], [op |-> 0, nt |-> 6, kids |-> <<>>]>>]],  \* 115 reg: SUBI1(reg,conN)
    [lhs |-> 2, pat |-> [op |-> 1350, nt |-> 0, kids |-> <<[op |-> 0, nt |-> 2, kids |-> <<>>], [op |-> 0, nt |-> 6, kids |-> <<>>]>>]],  \* 116 reg: SUBU1(reg,conN)
    [lhs |-> 2, pat |-> [op |-> 1221, nt |-> 0, kids |-> <<[op |-> 0, nt |-> 2, kids |-> <<>>]>>]],  \* 117 reg: NEGI1(reg)
    [lhs |-> 2, pat |-> [op |-> 2357, nt |-> 0, kids |-> <<[op |-> 2117, nt |-> 0, kids |-> <<[op |-> 0, nt |-> 8, kids |-> <<>>]>>], [op |-> 0, nt |-> 3, kids |-> <<>>]>>]],  \* 118 reg: ADDI2(INDIRI2(faddr),con2)
    [lhs |-> 2, pat |-> [op |-> 2358, nt |-> 0, kids |-> <<[op |-> 2118, nt |-> 0, kids |-> <<[op |-> 0, nt |-> 8, kids |-> <<>>]>>], [op |-> 0, nt |-> 3, kids |-> <<>>]>>]],  \* 119 reg: ADDU2(INDIRU2(faddr),con2)
    [lhs |-> 2, pat |-> [op |-> 2359, nt |-> 0, kids |-> <<[op |-> 2119, nt |-> 0, kids |-> <<[op |-> 0, nt |-> 8, kids |-> <<>>]>>], [op |-> 0, nt |-> 3, kids |-> <<>>]>>]],  \* 120 reg: ADDP2(INDIRP2(faddr),con2)
    [lhs |-> 2, pat |-> [op |-> 2357, nt |-> 0, kids |-> <<[op |-> 2117, nt |-> 0, kids |-> <<[op |-> 0, nt |-> 8, kids |-> <<>>]>>], [op |-> 2117, nt |-> 0, kids |-> <<[op |-> 0, nt |-> 8, kids |-> <<>>]>>]>>]],  \* 121 reg: ADDI2(INDIRI2(faddr),INDIRI2(faddr))
    [lhs |-> 2, pat |-> [op |-> 2358, nt |-> 0, kids |-> <<[op |-> 2118, nt |-> 0, kids |-> <<[op |-> 0, nt |-> 8, kids |-> <<>>]>>], [op |-> 2118, nt |-> 0, kids |-> <<[op |-> 0, nt |-> 8, kids |-> <<>>]>>]>>]],  \* 122 reg: ADDU2(INDIRU2(faddr),INDIRU2(faddr))
    [lhs |-> 2, pat |-> [op |-> 2359, nt |-> 0, kids |-> <<[op |-> 2119, nt |-> 0, kids |-> <<[op |-> 0, nt |-> 8, kids |-> <<>>]>>], [op |-> 2117, nt |-> 0, kids |-> <<[op |-> 0, nt |-> 8, kids |-> <<>>]>>]>>]],  \* 123 reg: ADDP2(INDIRP2(faddr),INDIRI2(faddr))
    [lhs |-> 2, pat |-> [op |-> 2357, nt |-> 0, kids |-> <<[op |-> 2117, nt |-> 0, kids |-> <<[op |-> 0, nt |-> 7, kids |-> <<>>]>>], [op |-> 0, nt |-> 3, kids |-> <<>>]>>]],  \* 124 reg: ADDI2(INDIRI2(addr),con2)
    [lhs |-> 2, pat |-> [op |-> 2358, nt |-> 0, kids |-> <<[op |-> 2118, nt |-> 0, kids |-> <<[op |-> 0, nt |-> 7, kids |-> <<>>]>>], [op |-> 0, nt |-> 3, kids |-> <<>>]>>]],  \* 125 reg: ADDU2(INDIRU2(addr),con2)
    [lhs |-> 2, pat |-> [op |-> 2357, nt |-> 0, kids |-> <<[op |-> 2117, nt |-> 0, kids |-> <<[op |-> 0, nt |-> 7, kids |-> <<>>]>>], [op |-> 2117, nt |-> 0, kids |-> <<[op |-> 0, nt |-> 7, kids |-> <<>>]>>]>>]],  \* 126 reg: ADDI2(INDIRI2(addr),INDIRI2(addr))
    [lhs |-> 2, pat |-> [op |-> 2358, nt |-> 0, kids |-> <<[op |-> 2118, nt |-> 0, kids |-> <<[op |-> 0, nt |-> 7, kids |-> <<>>]>>], [op |-> 2118, nt |-> 0, kids |-> <<[op |-> 0, nt |-> 7, kids |-> <<>>]>>]>>]],  \* 127 reg: ADDU2(INDIRU2(addr),INDIRU2(addr))
    [lhs |-> 2, pat |-> [op |-> 2357, nt |-> 0, kids |-> <<[op |-> 0, nt |-> 2, kids |-> <<>>], [op |-> 2117, nt |-> 0, kids |-> <<[op |-> 0, nt |-> 7, kids |-> <<>>]>>]>>]],  \* 128 reg: ADDI2(reg,INDIRI2(addr))
    [lhs |-> 2, pat |-> [op |-> 2358, nt |-> 0, kids |-> <<[op |-> 0, nt |-> 2, kids |-> <<>>], [op |-> 2118, nt |-> 0, kids |-> <<[op |-> 0, nt |-> 7, kids |-> <<>>]>>]>>]],  \* 129 reg: ADDU2(reg,INDIRU2(addr))
    [lhs |-> 2, pat |-> [op |-> 2357, nt |-> 0, kids |-> <<[op |-> 0, nt |-> 2, kids |-> <<>>], [op |-> 2117, nt |-> 0, kids |-> <<[op |-> 0, nt |-> 8, kids |-> <<>>]>>]>>]],  \* 130 reg: ADDI2(reg,INDIRI2(faddr))
    [lhs |-> 2, pat |-> [op |-> 2358, nt |-> 0, kids |-> <<[op |-> 0, nt |-> 2, kids |-> <<>>], [op |-> 2118, nt |-> 0, kids |-> <<[op |-> 0, nt |-> 8, kids |-> <<>>]>>]>>]],  \* 131 reg: ADDU2(reg,INDIRU2(faddr))
    [lhs |-> 2, pat |-> [op |-> 2359, nt |-> 0, kids |-> <<[op |-> 0, nt |-> 2, kids |-> <<>>], [op |-> 2119, nt |-> 0, kids |-> <<[op |-> 0, nt |-> 8, kids |-> <<>>]>>]>>]],  \* 132 reg: ADDP2(reg,INDIRP2(faddr))
    [lhs |-> 2, pat |-> [op |-> 2357, nt |-> 0, kids |-> <<[op |-> 0, nt |-> 2, kids |-> <<>>], [op |-> 0, nt |-> 3, kids |-> <<>>]>>]],  \* 133 reg: ADDI2(reg,con2)
    [lhs |-> 2, pat |-> [op |-> 2358, nt |-> 0, kids |-> <<[op |-> 0, nt |-> 2, kids |-> <<>>], [op |-> 0, nt |-> 3, kids |-> <<>>]>>]],  \* 134 reg: ADDU2(reg,con2)
    [lhs |-> 2, pat |-> [op |-> 2357, nt |-> 0, kids |-> <<[op |-> 0, nt |-> 2, kids |-> <<>>], [op |-> 0, nt |-> 2, kids |-> <<>>]>>]],  \* 135 reg: ADDI2(reg,reg)
    [lhs |-> 2, pat |-> [op |-> 2358, nt |-> 0, kids |-> <<[op |-> 0, nt |-> 2, kids |-> <<>>], [op |-> 0, nt |-> 2, kids |-> <<>>]>>]],  \* 136 reg: ADDU2(reg,reg)
    [lhs |-> 2, pat |-> [op |-> 2359, nt |-> 0, kids |-> <<[op |-> 0, nt |-> 2, kids |-> <<>>], [op |-> 0, nt |-> 2, kids |-> <<>>]>>]],  \* 137 reg: ADDP2(reg,reg)
    [lhs |-> 7, pat |-> [op |-> 2359, nt |-> 0, kids |-> <<[op |-> 0, nt |-> 7, kids |-> <<>>], [op |-> 0, nt |-> 2, kids |-> <<>>]>>]],  \* 138 addr: ADDP2(addr,reg)
    [lhs |-> 2, pat |-> [op |-> 2373, nt |-> 0, kids |-> <<[op |-> 2117, nt |-> 0, kids |-> <<[op |-> 0, nt |-> 8, kids |-> <<>>]>>], [op |-> 0, nt |-> 3, kids |-> <<>>]>>]],  \* 139 reg: SUBI2(INDIRI2(faddr),con2)
    [lhs |-> 2, pat |-> [op |-> 2374, nt |-> 0, kids |-> <<[op |-> 2118, nt |-> 0, kids |-> <<[op |-> 0, nt |-> 8, kids |-> <<>>]>>], [op |-> 0, nt |-> 3, kids |-> <<>>]>>]],  \* 140 reg: SUBU2(INDIRU2(faddr),con2)
    [lhs |-> 2, pat |-> [op |-> 2373, nt |-> 0, kids |-> <<[op |-> 2117, nt |-> 0, kids |-> <<[op |-> 0, nt |-> 8, kids |-> <<>>]>>], [op |-> 2117, nt |-> 0, kids |-> <<[op |-> 0, nt |-> 8, kids |-> <<>>]>>]>>]],  \* 141 reg: SUBI2(INDIRI2(faddr),INDIRI2(faddr))
    [lhs |-> 2, pat |-> [op |-> 2374, nt |-> 0, kids |-> <<[op |-> 2118, nt |-> 0, kids |-> <<[op |-> 0, nt |-> 8, kids |-> <<>>]>>], [op |-> 2118, nt |-> 0, kids |-> <<[op |-> 0, nt |-> 8, kids |-> <<>>]>>]>>]],  \* 142 reg: SUBU2(INDIRU2(faddr),INDIRU2(faddr))
    [lhs |-> 2, pat |-> [op |-> 2373, nt |-> 0, kids |-> <<[op |-> 2117, nt |-> 0, kids |-> <<[op |-> 0, nt |-> 7, kids |-> <<>>]>>], [op |-> 0, nt |-> 3, kids |-> <<>>]>>]],  \* 143 reg: SUBI2(INDIRI2(addr),con2)
    [lhs |-> 2, pat |-> [op |-> 2374, nt |-> 0, kids |-> <<[op |-> 2118, nt |-> 0, kids |-> <<[op |-> 0, nt |-> 7, kids |-> <<>>]>>], [op |-> 0, nt |-> 3, kids |-> <<>>]>>]],  \* 144 reg: SUBU2(INDIRU2(addr),con2)
    [lhs |-> 2, pat |-> [op |-> 2373, nt |-> 0, kids |-> <<[op |-> 2117, nt |-> 0, kids |-> <<[op |-> 0, nt |-> 7, kids |-> <<>>]>>], [op |-> 2117, nt |-> 0, kids |-> <<[op |-> 0, nt |-> 7, kids |-> <<>>]>>]>>]],  \* 145 reg: SUBI2(INDIRI2(addr),INDIRI2(addr))
    [lhs |-> 2, pat |-> [op |-> 2374, nt |-> 0, kids |-> <<[op |-> 2118, nt |-> 0, kids |-> <<[op |-> 0, nt |-> 7, kids |-> <<>>]>>], [op |-> 2118, nt |-> 0, kids |-> <<[op |-> 0, nt |-> 7, kids |-> <<>>]>>]>>]],  \* 146 reg: SUBU2(INDIRU2(addr),INDIRU2(addr))
    [lhs |-> 2, pat |-> [op |-> 2373, nt |-> 0, kids |-> <<[op |-> 0, nt |-> 2, kids |-> <<>>], [op |-> 2117, nt |-> 0, kids |-> <<[op |-> 0, nt |-> 7, kids |-> <<>>]>>]>>]],  \* 147 reg: SUBI2(reg,INDIRI2(addr))
    [lhs |-> 2, pat |-> [op |-> 2374, nt |-> 0, kids |-> <<[op |-> 0, nt |-> 2, kids |-> <<>>], [op |-> 2118, nt |-> 0, kids |-> <<[op |-> 0, nt |-> 7, kids |-> <<>>]>>]>>]],  \* 148 reg: SUBU2(reg,INDIRU2(addr))
    [lhs |-> 2, pat |-> [op |-> 2373, nt |-> 0, kids |-> <<[op |-> 0, nt |-> 2, kids |-> <<>>], [op |-> 2117, nt |-> 0, kids |-> <<[op |-> 0, nt |-> 8, kids |-> <<>>]>>]>>]],  \* 149 reg: SUBI2(reg,INDIRI2(faddr))
    [lhs |-> 2, pat |-> [op |-> 2374, nt |-> 0, kids |-> <<[op |-> 0, nt |-> 2, kids |-> <<>>], [op |-> 2118, nt |-> 0, kids |-> <<[op |-> 0, nt |-> 8, kids |-> <<>>]>>]>>]],  \* 150 reg: SUBU2(reg,INDIRU2(faddr))
    [lhs |-> 2, pat |-> [op |-> 2373, nt |-> 0, kids |-> <<[op |-> 0, nt |-> 2, kids |-> <<>>], [op |-> 0, nt |-> 3, kids |-> <<>>]>>]],  \* 151 reg: SUBI2(reg,con2)
    [lhs |-> 2, pat |-> [op |-> 2374, nt |-> 0, kids |-> <<[op |-> 0, nt |-> 2, kids |-> <<>>], [op |-> 0, nt |-> 3, kids |-> <<>>]>>]],  \* 152 reg: SUBU2(reg,con2)
    [lhs |-> 2, pat |-> [op |-> 2373, nt |-> 0, kids |-> <<[op |-> 0, nt |-> 2, kids |-> <<>>], [op |-> 0, nt |-> 2, kids |-> <<>>]>>]],  \* 153 reg: SUBI2(reg,reg)
    [lhs |-> 2, pat |-> [op |-> 2374, nt |-> 0, kids |-> <<[op |-> 0, nt |-> 2, kids |-> <<>>], [op |-> 0, nt |-> 2, kids |-> <<>>]>>]],  \* 154 reg: SUBU2(reg,reg)
    [lhs |-> 2, pat |-> [op |-> 2245, nt |-> 0, kids |-> <<[op |-> 0, nt |-> 2, kids |-> <<>>]>>]],  \* 155 reg: NEGI2(reg)
    [lhs |-> 2, pat |-> [op |-> 4405, nt |-> 0, kids |-> <<[op |-> 0, nt |-> 2, kids |-> <<>>], [op |-> 0, nt |-> 2, kids |-> <<>>]>>]],  \* 156 reg: ADDI4(reg,reg)
    [lhs |-> 2, pat |-> [op |-> 4406, nt |-> 0, kids |-> <<[op |-> 0, nt |-> 2, kids |-> <<>>], [op |-> 0, nt |-> 2, kids |-> <<>>]>>]],  \* 157 reg: ADDU4(reg,reg)
    [lhs |-> 2, pat |-> [op |-> 4421, nt |-> 0, kids |-> <<[op |-> 0, nt |-> 2, kids |-> <<>>], [op |-> 0, nt |-> 2, kids |-> <<>>]>>]],  \* 158 reg: SUBI4(reg,reg)
    [lhs |-> 2, pat |-> [op |-> 4422, nt |-> 0, kids |-> <<[op |-> 0, nt |-> 2, kids |-> <<>>], [op |-> 0, nt |-> 2, kids |-> <<>>]>>]],  \* 159 reg: SUBU4(reg,reg)
    [lhs |-> 2, pat |-> [op |-> 1493, nt |-> 0, kids |-> <<[op |-> 0, nt |-> 2, kids |-> <<>>], [op |-> 0, nt |-> 2, kids |-> <<>>]>>]],  \* 160 reg: MULI1(reg,reg)
    [lhs |-> 2, pat |-> [op |-> 1494, nt |-> 0, kids |-> <<[op |-> 0, nt |-> 2, kids |-> <<>>], [op |-> 0, nt |-> 2, kids |-> <<>>]>>]],  \* 161 reg: MULU1(reg,reg)
    [lhs |-> 2, pat |-> [op |-> 2517, nt |-> 0, kids |-> <<[op |-> 0, nt |-> 2, kids |-> <<>>], [op |-> 0, nt |-> 2, kids |-> <<>>]>>]],  \* 162 reg: MULI2(reg,reg)
    [lhs |-> 2, pat |-> [op |-> 2518, nt |-> 0, kids |-> <<[op |-> 0, nt |-> 2, kids |-> <<>>], [op |-> 0, nt |-> 2, kids |-> <<>>]>>]],  \* 163 reg: MULU2(reg,reg)
    [lhs |-> 2, pat |-> [op |-> 1477, nt |-> 0, kids |-> <<[op |-> 0, nt |-> 2, kids |-> <<>>], [op |-> 0, nt |-> 2, kids |-> <<>>]>>]],  \* 164 reg: DIVI1(reg,reg)
    [lhs |-> 2, pat |-> [op |-> 1478, nt |-> 0, kids |-> <<[op |-> 0, nt |-> 2, kids |-> <<>>], [op |-> 0, nt |-> 2, kids |-> <<>>]>>]],  \* 165 reg: DIVU1(reg,reg)
    [lhs |-> 2, pat |-> [op |-> 2501, nt |-> 0, kids |-> <<[op |-> 0, nt |-> 2, kids |-> <<>>], [op |-> 0, nt |-> 2, kids |-> <<>>]>>]],  \* 166 reg: DIVI2(reg,reg)
    [lhs |-> 2, pat |-> [op |-> 2502, nt |-> 0, kids |-> <<[op |-> 0, nt |-> 2, kids |-> <<>>], [op |-> 0, nt |-> 2, kids |-> <<>>]>>]],  \* 167 reg: DIVU2(reg,reg)
    [lhs |-> 2, pat |-> [op |-> 2501, nt |-> 0, kids |-> <<[op |-> 2117, nt |-> 0, kids |-> <<[op |-> 0, nt |-> 8, kids |-> <<>>]>>], [op |-> 2117, nt |-> 0, kids |-> <<[op |-> 0, nt |-> 8, kids |-> <<>>]>>]>>]],  \* 168 reg: DIVI2(INDIRI2(faddr),INDIRI2(faddr))
    [lhs |-> 2, pat |-> [op |-> 2502, nt |-> 0, kids |-> <<[op |-> 2118, nt |-> 0, kids |-> <<[op |-> 0, nt |-> 8, kids |-> <<>>]>>], [op |-> 2118, nt |-> 0, kids |-> <<[op |-> 0, nt |-> 8, kids |-> <<>>]>>]>>]],  \* 169 reg: DIVU2(INDIRU2(faddr),INDIRU2(faddr))
    [lhs |-> 2, pat |-> [op |-> 2501, nt |-> 0, kids |-> <<[op |-> 0, nt |-> 2, kids |-> <<>>], [op |-> 2117, nt |-> 0, kids |-> <<[op |-> 0, nt |-> 8, kids |-> <<>>]>>]>>]],  \* 170 reg: DIVI2(reg,INDIRI2(faddr))
    [lhs |-> 2, pat |-> [op |-> 2502, nt |-> 0, kids |-> <<[op |-> 0, nt |-> 2, kids |-> <<>>], [op |-> 2118, nt |-> 0, kids |-> <<[op |-> 0, nt |-> 8, kids |-> <<>>]>>]>>]],  \* 171 reg: DIVU2(reg,INDIRU2(faddr))
    [lhs |-> 2, pat |-> [op |-> 1381, nt |-> 0, kids |-> <<[op |-> 0, nt |-> 2, kids |-> <<>>], [op |-> 0, nt |-> 2, kids |-> <<>>]>>]],  \* 172 reg: MODI1(reg,reg)
    [lhs |-> 2, pat |-> [op |-> 1382, nt |-> 0, kids |-> <<[op |-> 0, nt |-> 2, kids |-> <<>>], [op |-> 0, nt |-> 2, kids |-> <<>>]>>]],  \* 173 reg: MODU1(reg,reg)
    [lhs |-> 2, pat |-> [op |-> 2405, nt |-> 0, kids |-> <<[op |-> 0, nt |-> 2, kids |-> <<>>], [op |-> 0, nt |-> 2, kids |-> <<>>]>>]],  \* 174 reg: MODI2(reg,reg)
    [lhs |-> 2, pat |-> [op |-> 2406, nt |-> 0, kids |-> <<[op |-> 0, nt |-> 2, kids |-> <<>>], [op |-> 0, nt |-> 2, kids |-> <<>>]>>]],  \* 175 reg: MODU2(reg,reg)
    [lhs |-> 2, pat |-> [op |-> 2405, nt |-> 0, kids |-> <<[op |-> 2117, nt |-> 0, kids |-> <<[op |-> 0, nt |-> 8, kids |-> <<>>]>>], [op |-> 2117, nt |-> 0, kids |-> <<[op |-> 0, nt |-> 8, kids |-> <<>>]>>]>>]],  \* 176 reg: MODI2(INDIRI2(faddr),INDIRI2(faddr))
    [lhs |-> 2, pat |-> [op |-> 2406, nt |-> 0, kids |-> <<[op |-> 2118, nt |-> 0, kids |-> <<[op |-> 0, nt |-> 8, kids |-> <<>>]>>], [op |-> 2118, nt |-> 0, kids |-> <<[op |-> 0, nt |-> 8, kids |-> <<>>]>>]>>]],  \* 177 reg: MODU2(INDIRU2(faddr),INDIRU2(faddr))
    [lhs |-> 2, pat |-> [op |-> 2405, nt |-> 0, kids |-> <<[op |-> 0, nt |-> 2, kids |-> <<>>], [op |-> 2117, nt |-> 0, kids |-> <<[op |-> 0, nt |-> 8, kids |-> <<>>]>>]>>]],  \* 178 reg: MODI2(reg,INDIRI2(faddr))
    [lhs |-> 2, pat |-> [op |-> 2406, nt |-> 0, kids |-> <<[op |-> 0, nt |-> 2, kids |-> <<>>], [op |-> 2118, nt |-> 0, kids |-> <<[op |-> 0, nt |-> 8, kids |-> <<>>]>>]>>]],  \* 179 reg: MODU2(reg,INDIRU2(faddr))
    [lhs |-> 2, pat |-> [op |-> 1413, nt |-> 0, kids |-> <<[op |-> 1093, nt |-> 0, kids |-> <<[op |-> 0, nt |-> 7, kids |-> <<>>]>>], [op |-> 1093, nt |-> 0, kids |-> <<[op |-> 0, nt |-> 7, kids |-> <<>>]>>]>>]],  \* 180 reg: BANDI1(INDIRI1(addr),INDIRI1(addr))
    [lhs |-> 2, pat |-> [op |-> 1414, nt |-> 0, kids |-> <<[op |-> 1094, nt |-> 0, kids |-> <<[op |-> 0, nt |-> 7, kids |-> <<>>]>>], [op |-> 1094, nt |-> 0, kids |-> <<[op |-> 0, nt |-> 7, kids |-> <<>>]>>]>>]],  \* 181 reg: BANDU1(INDIRU1(addr),INDIRU1(addr))
    [lhs |-> 2, pat |-> [op |-> 1413, nt |-> 0, kids |-> <<[op |-> 0, nt |-> 2, kids |-> <<>>], [op |-> 0, nt |-> 2, kids |-> <<>>]>>]],  \* 182 reg: BANDI1(reg,reg)
    [lhs |-> 2, pat |-> [op |-> 1414, nt |-> 0, kids |-> <<[op |-> 0, nt |-> 2, kids |-> <<>>], [op |-> 0, nt |-> 2, kids |-> <<>>]>>]],  \* 183 reg: BANDU1(reg,reg)
    [lhs |-> 2, pat |-> [op |-> 1413, nt |-> 0, kids |-> <<[op |-> 0, nt |-> 2, kids |-> <<>>], [op |-> 1093, nt |-> 0, kids |-> <<[op |-> 0, nt |-> 7, kids |-> <<>>]>>]>>]],  \* 184 reg: BANDI1(reg,INDIRI1(addr))
    [lhs |-> 2, pat |-> [op |-> 1414, nt |-> 0, kids |-> <<[op |-> 0, nt |-> 2, kids |-> <<>>], [op |-> 1094, nt |-> 0, kids |-> <<[op |-> 0, nt |-> 7, kids |-> <<>>]>>]>>]],  \* 185 reg: BANDU1(reg,INDIRU1(addr))
    [lhs |-> 2, pat |-> [op |-> 1445, nt |-> 0, kids |-> <<[op |-> 1093, nt |-> 0, kids |-> <<[op |-> 0, nt |-> 7, kids |-> <<>>]>>], [op |-> 1093, nt |-> 0, kids |-> <<[op |-> 0, nt |-> 7, kids |-> <<>>]>>]>>]],  \* 186 reg: BORI1(INDIRI1(addr),INDIRI1(addr))
    [lhs |-> 2, pat |-> [op |-> 1446, nt |-> 0, kids |-> <<[op |-> 1094, nt |-> 0, kids |-> <<[op |-> 0, nt |-> 7, kids |-> <<>>]>>], [op |-> 1094, nt |-> 0, kids |-> <<[op |-> 0, nt |-> 7, kids |-> <<>>]>>]>>]],  \* 187 reg: BORU1(INDIRU1(addr),INDIRU1(addr))
    [lhs |-> 2, pat |-> [op |-> 1445, nt |-> 0, kids |-> <<[op |-> 0, nt |-> 2, kids |-> <<>>], [op |-> 0, nt |-> 2, kids |-> <<>>]>>]],  \* 188 reg: BORI1(reg,reg)
    [lhs |-> 2, pat |-> [op |-> 1446, nt |-> 0, kids |-> <<[op |-> 0, nt |-> 2, kids |-> <<>>], [op |-> 0, nt |-> 2, kids |-> <<>>]>>]],  \* 189 reg: BORU1(reg,reg)
    [lhs |-> 2, pat |-> [op |-> 1445, nt |-> 0, kids |-> <<[op |-> 0, nt |-> 2, kids |-> <<>>], [op |-> 1093, nt |-> 0, kids |-> <<[op |-> 0, nt |-> 7, kids |-> <<>>]>>]>>]],  \* 190 reg: BORI1(reg,INDIRI1(addr))
    [lhs |-> 2, pat |-> [op |-> 1446, nt |-> 0, kids |-> <<[op |-> 0, nt |-> 2, kids |-> <<>>], [op |-> 1094, nt |-> 0, kids |-> <<[op |-> 0, nt |-> 7, kids |-> <<>>]>>]>>]],  \* 191 reg: BORU1(reg,INDIRU1(addr))
    [lhs |-> 2, pat |-> [op |-> 1461, nt |-> 0, kids |-> <<[op |-> 1093, nt |-> 0, kids |-> <<[op |-> 0, nt |-> 7, kids |-> <<>>]>>], [op |-> 1093, nt |-> 0, kids |-> <<[op |-> 0, nt |-> 7, kids |-> <<>>]>>]>>]],  \* 192 reg: BXORI1(INDIRI1(addr),INDIRI1(addr))
    [lhs |-> 2, pat |-> [op |-> 1462, nt |-> 0, kids |-> <<[op |-> 1094, nt |-> 0, kids |-> <<[op |-> 0, nt |-> 7, kids |-> <<>>]>>], [op |-> 1094, nt |-> 0, kids |-> <<[op |-> 0, nt |-> 7, kids |-> <<>>]>>]>>]],  \* 193 reg: BXORU1(INDIRU1(addr),INDIRU1(addr))
    [lhs |-> 2, pat |-> [op |-> 1461, nt |-> 0, kids |-> <<[op |-> 0, nt |-> 2, kids |-> <<>>], [op |-> 0, nt |-> 2, kids |-> <<>>]>>]],  \* 194 reg: BXORI1(reg,reg)
    [lhs |-> 2, pat |-> [op |-> 1462, nt |-> 0, kids |-> <<[op |-> 0, nt |-> 2, kids |-> <<>>], [op |-> 0, nt |-> 2, kids |-> <<>>]>>]],  \* 195 reg: BXORU1(reg,reg)
    [lhs |-> 2, pat |-> [op |-> 1461, nt |-> 0, kids |-> <<[op |-> 0, nt |-> 2, kids |-> <<>>], [op |-> 1093, nt |-> 0, kids |-> <<[op |-> 0, nt |-> 7, kids |-> <<>>]>>]>>]],  \* 196 reg: BXORI1(reg,INDIRI1(addr))
    [lhs |-> 2, pat |-> [op |-> 1462, nt |-> 0, kids |-> <<[op |-> 0, nt |-> 2, kids |-> <<>>], [op |-> 1094, nt |-> 0, kids |-> <<[op |-> 0, nt |-> 7, kids |-> <<>>]>>]>>]],  \* 197 reg: BXORU1(reg,INDIRU1(addr))
    [lhs |-> 2, pat |-> [op |-> 1429, nt |-> 0, kids |-> <<[op |-> 0, nt |-> 2, kids |-> <<>>]>>]],  \* 198 reg: BCOMI1(reg)
    [lhs |-> 2, pat |-> [op |-> 1430, nt |-> 0, kids |-> <<[op |-> 0, nt |-> 2, kids |-> <<>>]>>]],  \* 199 reg: BCOMU1(reg)
    [lhs |-> 2, pat |-> [op |-> 2437, nt |-> 0, kids |-> <<[op |-> 0, nt |-> 2, kids |-> <<>>], [op |-> 0, nt |-> 2, kids |-> <<>>]>>]],  \* 200 reg: BANDI2(reg,reg)
    [lhs |-> 2, pat |-> [op |-> 2438, nt |-> 0, kids |-> <<[op |-> 0, nt |-> 2, kids |-> <<>>], [op |-> 0, nt |-> 2, kids |-> <<>>]>>]],  \* 201 reg: BANDU2(reg,reg)
    [lhs |-> 2, pat |-> [op |-> 2437, nt |-> 0, kids |-> <<[op |-> 2117, nt |-> 0, kids |-> <<[op |-> 0, nt |-> 8, kids |-> <<>>]>>], [op |-> 2117, nt |-> 0, kids |-> <<[op |-> 0, nt |-> 8, kids |-> <<>>]>>]>>]],  \* 202 reg: BANDI2(INDIRI2(faddr),INDIRI2(faddr))
    [lhs |-> 2, pat |-> [op |-> 2438, nt |-> 0, kids |-> <<[op |-> 2118, nt |-> 0, kids |-> <<[op |-> 0, nt |-> 8, kids |-> <<>>]>>], [op |-> 2118, nt |-> 0, kids |-> <<[op |-> 0, nt |-> 8, kids |-> <<>>]>>]>>]],  \* 203 reg: BANDU2(INDIRU2(faddr),INDIRU2(faddr))
    [lhs |-> 2, pat |-> [op |-> 2437, nt |-> 0, kids |-> <<[op |-> 0, nt |-> 2, kids |-> <<>>], [op |-> 2117, nt |-> 0, kids |-> <<[op |-> 0, nt |-> 8, kids |-> <<>>]>>]>>]],  \* 204 reg: BANDI2(reg,INDIRI2(faddr))
    [lhs |-> 2, pat |-> [op |-> 2438, nt |-> 0, kids |-> <<[op |-> 0, nt |-> 2, kids |-> <<>>], [op |-> 2118, nt |-> 0, kids |-> <<[op |-> 0, nt |-> 8, kids |-> <<>>]>>]>>]],  \* 205 reg: BANDU2(reg,INDIRU2(faddr))
    [lhs |-> 2, pat |-> [op |-> 2437, nt |-> 0, kids |-> <<[op |-> 2117, nt |-> 0, kids |-> <<[op |-> 0, nt |-> 7, kids |-> <<>>]>>], [op |-> 2117, nt |-> 0, kids |-> <<[op |-> 0, nt |-> 7, kids |-> <<>>]>>]>>]],  \* 206 reg: BANDI2(INDIRI2(addr),INDIRI2(addr))
    [lhs |-> 2, pat |-> [op |-> 2438, nt |-> 0, kids |-> <<[op |-> 2118, nt |-> 0, kids |-> <<[op |-> 0, nt |-> 7, kids |-> <<>>]>>], [op |-> 2118, nt |-> 0, kids |-> <<[op |-> 0, nt |-> 7, kids |-> <<>>]>>]>>]],  \* 207 reg: BANDU2(INDIRU2(addr),INDIRU2(addr))
    [lhs |-> 2, pat |-> [op |-> 2437, nt |-> 0, kids |-> <<[op |-> 0, nt |-> 2, kids |-> <<>>], [op |-> 0, nt |-> 3, kids |-> <<>>]>>]],  \* 208 reg: BANDI2(reg,con2)
    [lhs |-> 2, pat |-> [op |-> 2438, nt |-> 0, kids |-> <<[op |-> 0, nt |-> 2, kids |-> <<>>], [op |-> 0, nt |-> 3, kids |-> <<>>]>>]],  \* 209 reg: BANDU2(reg,con2)
    [lhs |-> 2, pat |-> [op |-> 2437, nt |-> 0, kids |-> <<[op |-> 2117, nt |-> 0, kids |-> <<[op |-> 0, nt |-> 8, kids |-> <<>>]>>], [op |-> 0, nt |-> 3, kids |-> <<>>]>>]],  \* 210 reg: BANDI2(INDIRI2(faddr),con2)
    [lhs |-> 2, pat |-> [op |-> 2438, nt |-> 0, kids |-> <<[op |-> 2118, nt |-> 0, kids |-> <<[op |-> 0, nt |-> 8, kids |-> <<>>]>>], [op |-> 0, nt |-> 3, kids |-> <<>>]>>]],  \* 211 reg: BANDU2(INDIRU2(faddr),con2)
    [lhs |-> 2, pat |-> [op |-> 2437, nt |-> 0, kids |-> <<[op |-> 0, nt |-> 2, kids |-> <<>>], [op |-> 2117, nt |-> 0, kids |-> <<[op |-> 0, nt |-> 7, kids |-> <<>>]>>]>>]],  \* 212 reg: BANDI2(reg,INDIRI2(addr))
    [lhs |-> 2, pat |-> [op |-> 2438, nt |-> 0, kids |-> <<[op |-> 0, nt |-> 2, kids |-> <<>>], [op |-> 2118, nt |-> 0, kids |-> <<[op |-> 0, nt |-> 7, kids |-> <<>>]>>]>>]],  \* 213 reg: BANDU2(reg,INDIRU2(addr))
    [lhs |-> 2, pat |-> [op |-> 2469, nt |-> 0, kids |-> <<[op |-> 0, nt |-> 2, kids |-> <<>>], [op |-> 0, nt |-> 2, kids |-> <<>>]>>]],  \* 214 reg: BORI2(reg,reg)
    [lhs |-> 2, pat |-> [op |-> 2470, nt |-> 0, kids |-> <<[op |-> 0, nt |-> 2, kids |-> <<>>], [op |-> 0, nt |-> 2, kids |-> <<>>]>>]],  \* 215 reg: BORU2(reg,reg)
    [lhs |-> 2, pat |-> [op |-> 2469, nt |-> 0, kids |-> <<[op |-> 2117, nt |-> 0, kids |-> <<[op |-> 0, nt |-> 8, kids |-> <<>>]>>], [op |-> 2117, nt |-> 0, kids |-> <<[op |-> 0, nt |-> 8, kids |-> <<>>]>>]>>]],  \* 216 reg: BORI2(INDIRI2(faddr),INDIRI2(faddr))
    [lhs |-> 2, pat |-> [op |-> 2470, nt |-> 0, kids |-> <<[op |-> 2118, nt |-> 0, kids |-> <<[op |-> 0, nt |-> 8, kids |-> <<>>]>>], [op |-> 2118, nt |-> 0, kids |-> <<[op |-> 0, nt |-> 8, kids |-> <<>>]>>]>>]],  \* 217 reg: BORU2(INDIRU2(faddr),INDIRU2(faddr))
    [lhs |-> 2, pat |-> [op |-> 2469, nt |-> 0, kids |-> <<[op |-> 0, nt |-> 2, kids |-> <<>>], [op |-> 2117, nt |-> 0, kids |-> <<[op |-> 0, nt |-> 8, kids |-> <<>>]>>]>>]],  \* 218 reg: BORI2(reg,INDIRI2(faddr))
    [lhs |-> 2, pat |-> [op |-> 2470, nt |-> 0, kids |-> <<[op |-> 0, nt |-> 2, kids |-> <<>>], [op |-> 2118, nt |-> 0, kids |-> <<[op |-> 0, nt |-> 8, kids |-> <<>>]>>]>>]],  \* 219 reg: BORU2(reg,INDIRU2(faddr))
    [lhs |-> 2, pat |-> [op |-> 2469, nt |-> 0, kids |-> <<[op |-> 2117, nt |-> 0, kids |-> <<[op |-> 0, nt |-> 7, kids |-> <<>>]>>], [op |-> 2117, nt |-> 0, kids |-> <<[op |-> 0, nt |-> 7, kids |-> <<>>]>>]>>]],  \* 220 reg: BORI2(INDIRI2(addr),INDIRI2(addr))
    [lhs |-> 2, pat |-> [op |-> 2470, nt |-> 0, kids |-> <<[op |-> 2118, nt |-> 0, kids |-> <<[op |-> 0, nt |-> 7, kids |-> <<>>]>>], [op |-> 2118, nt |-> 0, kids |-> <<[op |-> 0, nt |-> 7, kids |-> <<>>]>>]>>]],  \* 221 reg: BORU2(INDIRU2(addr),INDIRU2(addr))
    [lhs |-> 2, pat |-> [op |-> 2469, nt |-> 0, kids |-> <<[op |-> 0, nt |-> 2, kids |-> <<>>], [op |-> 0, nt |-> 3, kids |-> <<>>]>>]],  \* 222 reg: BORI2(reg,con2)
    [lhs |-> 2, pat |-> [op |-> 2470, nt |-> 0, kids |-> <<[op |-> 0, nt |-> 2, kids |-> <<>>], [op |-> 0, nt |-> 3, kids |-> <<>>]>>]],  \* 223 reg: BORU2(reg,con2)
    [lhs |-> 2, pat |-> [op |-> 2469, nt |-> 0, kids |-> <<[op |-> 2117, nt |-> 0, kids |-> <<[op |-> 0, nt |-> 8, kids |-> <<>>]>>], [op |-> 0, nt |-> 3, kids |-> <<>>]>>]],  \* 224 reg: BORI2(INDIRI2(faddr),con2)
    [lhs |-> 2, pat |-> [op |-> 2470, nt |-> 0, kids |-> <<[op |-> 2118, nt |-> 0, kids |-> <<[op |-> 0, nt |-> 8, kids |-> <<>>]>>], [op |-> 0, nt |-> 3, kids |-> <<>>]>>]],  \* 225 reg: BORU2(INDIRU2(faddr),con2)
    [lhs |-> 2, pat |-> [op |-> 2469, nt |-> 0, kids |-> <<[op |-> 0, nt |-> 2, kids |-> <<>>], [op |-> 2117, nt |-> 0, kids |-> <<[op |-> 0, nt |-> 7, kids |-> <<>>]>>]>>]],  \* 226 reg: BORI2(reg,INDIRI2(addr))
    [lhs |-> 2, pat |-> [op |-> 2470, nt |-> 0, kids |-> <<[op |-> 0, nt |-> 2, kids |-> <<>>], [op |-> 2118, nt |-> 0, kids |-> <<[op |-> 0, nt |-> 7, kids |-> <<>>]>>]>>]],  \* 227 reg: BORU2(reg,INDIRU2(addr))
    [lhs |-> 2, pat |-> [op |-> 2485, nt |-> 0, kids |-> <<[op |-> 0, nt |-> 2, kids |-> <<>>], [op |-> 0, nt |-> 2, kids |-> <<>>]>>]],  \* 228 reg: BXORI2(reg,reg)
    [lhs |-> 2, pat |-> [op |-> 2486, nt |-> 0, kids |-> <<[op |-> 0, nt |-> 2, kids |-> <<>>], [op |-> 0, nt |-> 2, kids |-> <<>>]>>]],  \* 229 reg: BXORU2(reg,reg)
    [lhs |-> 2, pat |-> [op |-> 2485, nt |-> 0, kids |-> <<[op |-> 2117, nt |-> 0, kids |-> <<[op |-> 0, nt |-> 8, kids |-> <<>>]>>], [op |-> 2117, nt |-> 0, kids |-> <<[op |-> 0, nt |-> 8, kids |-> <<>>]>>]>>]],  \* 230 reg: BXORI2(INDIRI2(faddr),INDIRI2(faddr))
    [lhs |-> 2, pat |-> [op |-> 2486, nt |-> 0, kids |-> <<[op |-> 2118, nt |-> 0, kids |-> <<[op |-> 0, nt |-> 8, kids |-> <<>>]>>], [op |-> 2118, nt |-> 0, kids |-> <<[op |-> 0, nt |-> 8, kids |-> <<>>]>>]>>]],  \* 231 reg: BXORU2(INDIRU2(faddr),INDIRU2(faddr))
    [lhs |-> 2, pat |-> [op |-> 2485, nt |-> 0, kids |-> <<[op |-> 0, nt |-> 2, kids |-> <<>>], [op |-> 2117, nt |-> 0, kids |-> <<[op |-> 0, nt |-> 8, kids |-> <<>>]>>]>>]],  \* 232 reg: BXORI2(reg,INDIRI2(faddr))
    [lhs |-> 2, pat |-> [op |-> 2486, nt |-> 0, kids |-> <<[op |-> 0, nt |-> 2, kids |-> <<>>], [op |-> 2118, nt |-> 0, kids |-> <<[op |-> 0, nt |-> 8, kids |-> <<>>]>>]>>]],  \* 233 reg: BXORU2(reg,INDIRU2(faddr))
    [lhs |-> 2, pat |-> [op |-> 2485, nt |-> 0, kids |-> <<[op |-> 2117, nt |-> 0, kids |-> <<[op |-> 0, nt |-> 7, kids |-> <<>>]>>], [op |-> 2117, nt |-> 0, kids |-> <<[op |-> 0, nt |-> 7, kids |-> <<>>]>>]>>]],  \* 234 reg: BXORI2(INDIRI2(addr),INDIRI2(addr))
    [lhs |-> 2, pat |-> [op |-> 2486, nt |-> 0, kids |-> <<[op |-> 2118, nt |-> 0, kids |-> <<[op |-> 0, nt |-> 7, kids |-> <<>>]>>], [op |-> 2118, nt |-> 0, kids |-> <<[op |-> 0, nt |-> 7, kids |-> <<>>]>>]>>]],  \* 235 reg: BXORU2(INDIRU2(addr),INDIRU2(addr))
    [lhs |-> 2, pat |-> [op |-> 2485, nt |-> 0, kids |-> <<[op |-> 0, nt |-> 2, kids |-> <<>>], [op |-> 0, nt |-> 3, kids |-> <<>>]>>]],  \* 236 reg: BXORI2(reg,con2)
    [lhs |-> 2, pat |-> [op |-> 2486, nt |-> 0, kids |-> <<[op |-> 0, nt |-> 2, kids |-> <<>>], [op |-> 0, nt |-> 3, kids |-> <<>>]>>]],  \* 237 reg: BXORU2(reg,con2)
    [lhs |-> 2, pat |-> [op |-> 2485, nt |-> 0, kids |-> <<[op |-> 2117, nt |-> 0, kids |-> <<[op |-> 0, nt |-> 8, kids |-> <<>>]>>], [op |-> 0, nt |-> 3, kids |-> <<>>]>>]],  \* 238 reg: BXORI2(INDIRI2(faddr),con2)
    [lhs |-> 2, pat |-> [op |-> 2486, nt |-> 0, kids |-> <<[op |-> 2118, nt |-> 0, kids |-> <<[op |-> 0, nt |-> 8, kids |-> <<>>]>>], [op |-> 0, nt |-> 3, kids |-> <<>>]>>]],  \* 239 reg: BXORU2(INDIRU2(faddr),con2)
    [lhs |-> 2, pat |-> [op |-> 2485, nt |-> 0, kids |-> <<[op |-> 0, nt |-> 2, kids |-> <<>>], [op |-> 2117, nt |-> 0, kids |-> <<[op |-> 0, nt |-> 7, kids |-> <<>>]>>]>>]],  \* 240 reg: BXORI2(reg,INDIRI2(addr))
    [lhs |-> 2, pat |-> [op |-> 2486, nt |-> 0, kids |-> <<[op |-> 0, nt |-> 2, kids |-> <<>>], [op |-> 2118, nt |-> 0, kids |-> <<[op |-> 0, nt |-> 7, kids |-> <<>>]>>]>>]],  \* 241 reg: BXORU2(reg,INDIRU2(addr))
    [lhs |-> 2, pat |-> [op |-> 2453, nt |-> 0, kids |-> <<[op |-> 0, nt |-> 2, kids |-> <<>>]>>]],  \* 242 reg: BCOMI2(reg)
    [lhs |-> 2, pat |-> [op |-> 2454, nt |-> 0, kids |-> <<[op |-> 0, nt |-> 2, kids |-> <<>>]>>]],  \* 243 reg: BCOMU2(reg)
    [lhs |-> 2, pat |-> [op |-> 2389, nt |-> 0, kids |-> <<[op |-> 0, nt |-> 2, kids |-> <<>>], [op |-> 0, nt |-> 6, kids |-> <<>>]>>]],  \* 244 reg: LSHI2(reg,conN)
    [lhs |-> 2, pat |-> [op |-> 2390, nt |-> 0, kids |-> <<[op |-> 0, nt |-> 2, kids |-> <<>>], [op |-> 0, nt |-> 6, kids |-> <<>>]>>]],  \* 245 reg: LSHU2(reg,conN)
    [lhs |-> 2, pat |-> [op |-> 2422, nt |-> 0, kids |-> <<[op |-> 0, nt |-> 2, kids |-> <<>>], [op |-> 0, nt |-> 6, kids |-> <<>>]>>]],  \* 246 reg: RSHU2(reg,conN)
    [lhs |-> 2, pat |-> [op |-> 2421, nt |-> 0, kids |-> <<[op |-> 0, nt |-> 2, kids |-> <<>>], [op |-> 0, nt |-> 6, kids |-> <<>>]>>]],  \* 247 reg: RSHI2(reg,conN)
    [lhs |-> 2, pat |-> [op |-> 2389, nt |-> 0, kids |-> <<[op |-> 0, nt |-> 2, kids |-> <<>>], [op |-> 0, nt |-> 2, kids |-> <<>>]>>]],  \* 248 reg: LSHI2(reg,reg)
    [lhs |-> 2, pat |-> [op |-> 2390, nt |-> 0, kids |-> <<[op |-> 0, nt |-> 2, kids |-> <<>>], [op |-> 0, nt |-> 2, kids |-> <<>>]>>]],  \* 249 reg: LSHU2(reg,reg)
    [lhs |-> 2, pat |-> [op |-> 2422, nt |-> 0, kids |-> <<[op |-> 0, nt |-> 2, kids |-> <<>>], [op |-> 0, nt |-> 2, kids |-> <<>>]>>]],  \* 250 reg: RSHU2(reg,reg)
    [lhs |-> 2, pat |-> [op |-> 2421, nt |-> 0, kids |-> <<[op |-> 0, nt |-> 2, kids |-> <<>>], [op |-> 0, nt |-> 2, kids |-> <<>>]>>]],  \* 251 reg: RSHI2(reg,reg)
    [lhs |-> 2, pat |-> [op |-> 1365, nt |-> 0, kids |-> <<[op |-> 0, nt |-> 2, kids |-> <<>>], [op |-> 0, nt |-> 6, kids |-> <<>>]>>]],  \* 252 reg: LSHI1(reg,conN)
    [lhs |-> 2, pat |-> [op |-> 1366, nt |-> 0, kids |-> <<[op |-> 0, nt |-> 2, kids |-> <<>>], [op |-> 0, nt |-> 6, kids |-> <<>>]>>]],  \* 253 reg: LSHU1(reg,conN)
    [lhs |-> 2, pat |-> [op |-> 1398, nt |-> 0, kids |-> <<[op |-> 0, nt |-> 2, kids |-> <<>>], [op |-> 0, nt |-> 6, kids |-> <<>>]>>]],  \* 254 reg: RSHU1(reg,conN)
    [lhs |-> 2, pat |-> [op |-> 1397, nt |-> 0, kids |-> <<[op |-> 0, nt |-> 2, kids |-> <<>>], [op |-> 0, nt |-> 6, kids |-> <<>>]>>]],  \* 255 reg: RSHI1(reg,conN)
    [lhs |-> 2, pat |-> [op |-> 1365, nt |-> 0, kids |-> <<[op |-> 0, nt |-> 2, kids |-> <<>>], [op |-> 0, nt |-> 2, kids |-> <<>>]>>]],  \* 256 reg: LSHI1(reg,reg)
    [lhs |-> 2, pat |-> [op |-> 1366, nt |-> 0, kids |-> <<[op |-> 0, nt |-> 2, kids |-> <<>>], [op |-> 0, nt |-> 2, kids |-> <<>>]>>]],  \* 257 reg: LSHU1(reg,reg)
    [lhs |-> 2, pat |-> [op |-> 1398, nt |-> 0, kids |-> <<[op |-> 0, nt |-> 2, kids |-> <<>>], [op |-> 0, nt |-> 2, kids |-> <<>>]>>]],  \* 258 reg: RSHU1(reg,reg)
    [lhs |-> 2, pat |-> [op |-> 1397, nt |-> 0, kids |-> <<[op |-> 0, nt |-> 2, kids |-> <<>>], [op |-> 0, nt |-> 2, kids |-> <<>>]>>]],  \* 259 reg: RSHI1(reg,reg)
    [lhs |-> 2, pat |-> [op |-> 1157, nt |-> 0, kids |-> <<[op |-> 0, nt |-> 2, kids |-> <<>>]>>]],  \* 260 reg: CVII1(reg)
    [lhs |-> 2, pat |-> [op |-> 1158, nt |-> 0, kids |-> <<[op |-> 0, nt |-> 2, kids |-> <<>>]>>]],  \* 261 reg: CVIU1(reg)
    [lhs |-> 2, pat |-> [op |-> 1205, nt |-> 0, kids |-> <<[op |-> 0, nt |-> 2, kids |-> <<>>]>>]],  \* 262 reg: CVUI1(reg)
    [lhs |-> 2, pat |-> [op |-> 1206, nt |-> 0, kids |-> <<[op |-> 0, nt |-> 2, kids |-> <<>>]>>]],  \* 263 reg: CVUU1(reg)
    [lhs |-> 2, pat |-> [op |-> 2181, nt |-> 0, kids |-> <<[op |-> 0, nt |-> 2, kids |-> <<>>]>>]],  \* 264 reg: CVII2(reg)
    [lhs |-> 2, pat |-> [op |-> 2182, nt |-> 0, kids |-> <<[op |-> 0, nt |-> 2, kids |-> <<>>]>>]],  \* 265 reg: CVIU2(reg)
    [lhs |-> 2, pat |-> [op |-> 2229, nt |-> 0, kids |-> <<[op |-> 0, nt |-> 2, kids |-> <<>>]>>]],  \* 266 reg: CVUI2(reg)
    [lhs |-> 2, pat |-> [op |-> 2230, nt |-> 0, kids |-> <<[op |-> 0, nt |-> 2, kids |-> <<>>]>>]],  \* 267 reg: CVUU2(reg)
    [lhs |-> 2, pat |-> [op |-> 1157, nt |-> 0, kids |-> <<[op |-> 2117, nt |-> 0, kids |-> <<[op |-> 0, nt |-> 7, kids |-> <<>>]>>]>>]],  \* 268 reg: CVII1(INDIRI2(addr))
    [lhs |-> 2, pat |-> [op |-> 1206, nt |-> 0, kids |-> <<[op |-> 2118, nt |-> 0, kids |-> <<[op |-> 0, nt |-> 7, kids |-> <<>>]>>]>>]],  \* 269 reg: CVUU1(INDIRU2(addr))
    [lhs |-> 2, pat |-> [op |-> 2198, nt |-> 0, kids |-> <<[op |-> 0, nt |-> 2, kids |-> <<>>]>>]],  \* 270 reg: CVPU2(reg)
    [lhs |-> 2, pat |-> [op |-> 2231, nt |-> 0, kids |-> <<[op |-> 0, nt |-> 2, kids |-> <<>>]>>]],  \* 271 reg: CVUP2(reg)
    [lhs |-> 2, pat |-> [op |-> 4229, nt |-> 0, kids |-> <<[op |-> 0, nt |-> 2, kids |-> <<>>]>>]],  \* 272 reg: CVII4(reg)
    [lhs |-> 2, pat |-> [op |-> 4230, nt |-> 0, kids |-> <<[op |-> 0, nt |-> 2, kids |-> <<>>]>>]],  \* 273 reg: CVIU4(reg)
    [lhs |-> 2, pat |-> [op |-> 4277, nt |-> 0, kids |-> <<[op |-> 0, nt |-> 2, kids |-> <<>>]>>]],  \* 274 reg: CVUI4(reg)
    [lhs |-> 2, pat |-> [op |-> 4278, nt |-> 0, kids |-> <<[op |-> 0, nt |-> 2, kids |-> <<>>]>>]],  \* 275 reg: CVUU4(reg)
    [lhs |-> 2, pat |-> [op |-> 4246, nt |-> 0, kids |-> <<[op |-> 0, nt |-> 2, kids |-> <<>>]>>]],  \* 276 reg: CVPU4(reg)
    [lhs |-> 2, pat |-> [op |-> 4279, nt |-> 0, kids |-> <<[op |-> 0, nt |-> 2, kids |-> <<>>]>>]],  \* 277 reg: CVUP4(reg)
    [lhs |-> 1, pat |-> [op |-> 600, nt |-> 0, kids |-> <<>>]],  \* 278 stmt: LABELV
    [lhs |-> 1, pat |-> [op |-> 584, nt |-> 0, kids |-> <<[op |-> 0, nt |-> 7, kids |-> <<>>]>>]],  \* 279 stmt: JUMPV(addr)
    [lhs |-> 1, pat |-> [op |-> 584, nt |-> 0, kids |-> <<[op |-> 0, nt |-> 2, kids |-> <<>>]>>]],  \* 280 stmt: JUMPV(reg)
    [lhs |-> 1, pat |-> [op |-> 1509, nt |-> 0, kids |-> <<[op |-> 0, nt |-> 2, kids |-> <<>>], [op |-> 0, nt |-> 2, kids |-> <<>>]>>]],  \* 281 stmt: EQI1(reg,reg)
    [lhs |-> 1, pat |-> [op |-> 1510, nt |-> 0, kids |-> <<[op |-> 0, nt |-> 2, kids |-> <<>>], [op |-> 0, nt |-> 2, kids |-> <<>>]>>]],  \* 282 stmt: EQU1(reg,reg)
    [lhs |-> 1, pat |-> [op |-> 1509, nt |-> 0, kids |-> <<[op |-> 0, nt |-> 2, kids |-> <<>>], [op |-> 1093, nt |-> 0, kids |-> <<[op |-> 0, nt |-> 7, kids |-> <<>>]>>]>>]],  \* 283 stmt: EQI1(reg,INDIRI1(addr))
    [lhs |-> 1, pat |-> [op |-> 1510, nt |-> 0, kids |-> <<[op |-> 0, nt |-> 2, kids |-> <<>>], [op |-> 1094, nt |-> 0, kids |-> <<[op |-> 0, nt |-> 7, kids |-> <<>>]>>]>>]],  \* 284 stmt: EQU1(reg,INDIRU1(addr))
    [lhs |-> 1, pat |-> [op |-> 1589, nt |-> 0, kids |-> <<[op |-> 0, nt |-> 2, kids |-> <<>>], [op |-> 0, nt |-> 2, kids |-> <<>>]>>]],  \* 285 stmt: NEI1(reg,reg)
    [lhs |-> 1, pat |-> [op |-> 1590, nt |-> 0, kids |-> <<[op |-> 0, nt |-> 2, kids |-> <<>>], [op |-> 0, nt |-> 2, kids |-> <<>>]>>]],  \* 286 stmt: NEU1(reg,reg)
    [lhs |-> 1, pat |-> [op |-> 1589, nt |-> 0, kids |-> <<[op |-> 0, nt |-> 2, kids |-> <<>>], [op |-> 1093, nt |-> 0, kids |-> <<[op |-> 0, nt |-> 7, kids |-> <<>>]>>]>>]],  \* 287 stmt: NEI1(reg,INDIRI1(addr))
    [lhs |-> 1, pat |-> [op |-> 1590, nt |-> 0, kids |-> <<[op |-> 0, nt |-> 2, kids |-> <<>>], [op |-> 1094, nt |-> 0, kids |-> <<[op |-> 0, nt |-> 7, kids |-> <<>>]>>]>>]],  \* 288 stmt: NEU1(reg,INDIRU1(addr))
    [lhs |-> 1, pat |-> [op |-> 1573, nt |-> 0, kids |-> <<[op |-> 0, nt |-> 2, kids |-> <<>>], [op |-> 0, nt |-> 2, kids |-> <<>>]>>]],  \* 289 stmt: LTI1(reg,reg)
    [lhs |-> 1, pat |-> [op |-> 1573, nt |-> 0, kids |-> <<[op |-> 0, nt |-> 2, kids |-> <<>>], [op |-> 1093, nt |-> 0, kids |-> <<[op |-> 0, nt |-> 7, kids |-> <<>>]>>]>>]],  \* 290 stmt: LTI1(reg,INDIRI1(addr))
    [lhs |-> 1, pat |-> [op |-> 1574, nt |-> 0, kids |-> <<[op |-> 0, nt |-> 2, kids |-> <<>>], [op |-> 0, nt |-> 2, kids |-> <<>>]>>]],  \* 291 stmt: LTU1(reg,reg)
    [lhs |-> 1, pat |-> [op |-> 1574, nt |-> 0, kids |-> <<[op |-> 0, nt |-> 2, kids |-> <<>>], [op |-> 1094, nt |-> 0, kids |-> <<[op |-> 0, nt |-> 7, kids |-> <<>>]>>]>>]],  \* 292 stmt: LTU1(reg,INDIRU1(addr))
    [lhs |-> 1, pat |-> [op |-> 1557, nt |-> 0, kids |-> <<[op |-> 0, nt |-> 2, kids |-> <<>>], [op |-> 0, nt |-> 2, kids |-> <<>>]>>]],  \* 293 stmt: LEI1(reg,reg)
    [lhs |-> 1, pat |-> [op |-> 1557, nt |-> 0, kids |-> <<[op |-> 0, nt |-> 2, kids |-> <<>>], [op |-> 1093, nt |-> 0, kids |-> <<[op |-> 0, nt |-> 7, kids |-> <<>>]>>]>>]],  \* 294 stmt: LEI1(reg,INDIRI1(addr))
    [lhs |-> 1, pat |-> [op |-> 1558, nt |-> 0, kids |-> <<[op |-> 0, nt |-> 2, kids |-> <<>>], [op |-> 0, nt |-> 2, kids |-> <<>>]>>]],  \* 295 stmt: LEU1(reg,reg)
    [lhs |-> 1, pat |-> [op |-> 1558, nt |-> 0, kids |-> <<[op |-> 0, nt |-> 2, kids |-> <<>>], [op |-> 1094, nt |-> 0, kids |-> <<[op |-> 0, nt |-> 7, kids |-> <<>>]>>]>>]],  \* 296 stmt: LEU1(reg,INDIRU1(addr))
    [lhs |-> 1, pat |-> [op |-> 1541, nt |-> 0, kids |-> <<[op |-> 0, nt |-> 2, kids |-> <<>>], [op |-> 0, nt |-> 2, kids |-> <<>>]>>]],  \* 297 stmt: GTI1(reg,reg)
    [lhs |-> 1, pat |-> [op |-> 1541, nt |-> 0, kids |-> <<[op |-> 0, nt |-> 2, kids |-> <<>>], [op |-> 1093, nt |-> 0, kids |-> <<[op |-> 0, nt |-> 7, kids |-> <<>>]>>]>>]],  \* 298 stmt: GTI1(reg,INDIRI1(addr))
    [lhs |-> 1, pat |-> [op |-> 1542, nt |-> 0, kids |-> <<[op |-> 0, nt |-> 2, kids |-> <<>>], [op |-> 0, nt |-> 2, kids |-> <<>>]>>]],  \* 299 stmt: GTU1(reg,reg)
    [lhs |-> 1, pat |-> [op |-> 1542, nt |-> 0, kids |-> <<[op |-> 0, nt |-> 2, kids |-> <<>>], [op |-> 1094, nt |-> 0, kids |-> <<[op |-> 0, nt |-> 7, kids |-> <<>>]>>]>>]],  \* 300 stmt: GTU1(reg,INDIRU1(addr))
    [lhs |-> 1, pat |-> [op |-> 1525, nt |-> 0, kids |-> <<[op |-> 0, nt |-> 2, kids |-> <<>>], [op |-> 0, nt |-> 2, kids |-> <<>>]>>]],  \* 301 stmt: GEI1(reg,reg)
    [lhs |-> 1, pat |-> [op |-> 1525, nt |-> 0, kids |-> <<[op |-> 0, nt |-> 2, kids |-> <<>>], [op |-> 1093, nt |-> 0, kids |-> <<[op |-> 0, nt |-> 7, kids |-> <<>>]>>]>>]],  \* 302 stmt: GEI1(reg,INDIRI1(addr))
    [lhs |-> 1, pat |-> [op |-> 1526, nt |-> 0, kids |-> <<[op |-> 0, nt |-> 2, kids |-> <<>>], [op |-> 0, nt |-> 2, kids |-> <<>>]>>]],  \* 303 stmt: GEU1(reg,reg)
    [lhs |-> 1, pat |-> [op |-> 1526, nt |-> 0, kids |-> <<[op |-> 0, nt |-> 2, kids |-> <<>>], [op |-> 1094, nt |-> 0, kids |-> <<[op |-> 0, nt |-> 7, kids |-> <<>>]>>]>>]],  \* 304 stmt: GEU1(reg,INDIRU1(addr))
    [lhs |-> 1, pat |-> [op |-> 2533, nt |-> 0, kids |-> <<[op |-> 2117, nt |-> 0, kids |-> <<[op |-> 0, nt |-> 8, kids |-> <<>>]>>], [op |-> 2117, nt |-> 0, kids |-> <<[op |-> 0, nt |-> 8, kids |-> <<>>]>>]>>]],  \* 305 stmt: EQI2(INDIRI2(faddr),INDIRI2(faddr))
    [lhs |-> 1, pat |-> [op |-> 2534, nt |-> 0, kids |-> <<[op |-> 2118, nt |-> 0, kids |-> <<[op |-> 0, nt |-> 8, kids |-> <<>>]>>], [op |-> 2118, nt |-> 0, kids |-> <<[op |-> 0, nt |-> 8, kids |-> <<>>]>>]>>]],  \* 306 stmt: EQU2(INDIRU2(faddr),INDIRU2(faddr))
    [lhs |-> 1, pat |-> [op |-> 2533, nt |-> 0, kids |-> <<[op |-> 0, nt |-> 2, kids |-> <<>>], [op |-> 2117, nt |-> 0, kids |-> <<[op |-> 0, nt |-> 8, kids |-> <<>>]>>]>>]],  \* 307 stmt: EQI2(reg,INDIRI2(faddr))
    [lhs |-> 1, pat |-> [op |-> 2534, nt |-> 0, kids |-> <<[op |-> 0, nt |-> 2, kids |-> <<>>], [op |-> 2118, nt |-> 0, kids |-> <<[op |-> 0, nt |-> 8, kids |-> <<>>]>>]>>]],  \* 308 stmt: EQU2(reg,INDIRU2(faddr))
    [lhs |-> 1, pat |-> [op |-> 2533, nt |-> 0, kids |-> <<[op |-> 0, nt |-> 2, kids |-> <<>>], [op |-> 0, nt |-> 2, kids |-> <<>>]>>]],  \* 309 stmt: EQI2(reg,reg)
    [lhs |-> 1, pat |-> [op |-> 2534, nt |-> 0, kids |-> <<[op |-> 0, nt |-> 2, kids |-> <<>>], [op |-> 0, nt |-> 2, kids |-> <<>>]>>]],  \* 310 stmt: EQU2(reg,reg)
    [lhs |-> 1, pat |-> [op |-> 2613, nt |-> 0, kids |-> <<[op |-> 2117, nt |-> 0, kids |-> <<[op |-> 0, nt |-> 8, kids |-> <<>>]>>], [op |-> 2117, nt |-> 0, kids |-> <<[op |-> 0, nt |-> 8, kids |-> <<>>]>>]>>]],  \* 311 stmt: NEI2(INDIRI2(faddr),INDIRI2(faddr))
    [lhs |-> 1, pat |-> [op |-> 2614, nt |-> 0, kids |-> <<[op |-> 2118, nt |-> 0, kids |-> <<[op |-> 0, nt |-> 8, kids |-> <<>>]>>], [op |-> 2118, nt |-> 0, kids |-> <<[op |-> 0, nt |-> 8, kids |-> <<>>]>>]>>]],  \* 312 stmt: NEU2(INDIRU2(faddr),INDIRU2(faddr))
    [lhs |-> 1, pat |-> [op |-> 2613, nt |-> 0, kids |-> <<[op |-> 0, nt |-> 2, kids |-> <<>>], [op |-> 2117, nt |-> 0, kids |-> <<[op |-> 0, nt |-> 8, kids |-> <<>>]>>]>>]],  \* 313 stmt: NEI2(reg,INDIRI2(faddr))
    [lhs |-> 1, pat |-> [op |-> 2614, nt |-> 0, kids |-> <<[op |-> 0, nt |-> 2, kids |-> <<>>], [op |-> 2118, nt |-> 0, kids |-> <<[op |-> 0, nt |-> 8, kids |-> <<>>]>>]>>]],  \* 314 stmt: NEU2(reg,INDIRU2(faddr))
    [lhs |-> 1, pat |-> [op |-> 2613, nt |-> 0, kids |-> <<[op |-> 0, nt |-> 2, kids |-> <<>>], [op |-> 0, nt |-> 2, kids |-> <<>>]>>]],  \* 315 stmt: NEI2(reg,reg)
    [lhs |-> 1, pat |-> [op |-> 2614, nt |-> 0, kids |-> <<[op |-> 0, nt |-> 2, kids |-> <<>>], [op |-> 0, nt |-> 2, kids |-> <<>>]>>]],  \* 316 stmt: NEU2(reg,reg)
    [lhs |-> 1, pat |-> [op |-> 2597, nt |-> 0, kids |-> <<[op |-> 2117, nt |-> 0, kids |-> <<[op |-> 0, nt |-> 8, kids |-> <<>>]>>], [op |-> 2117, nt |-> 0, kids |-> <<[op |-> 0, nt |-> 8, kids |-> <<>>]>>]>>]],  \* 317 stmt: LTI2(INDIRI2(faddr),INDIRI2(faddr))
    [lhs |-> 1, pat |-> [op |-> 2598, nt |-> 0, kids |-> <<[op |-> 2118, nt |-> 0, kids |-> <<[op |-> 0, nt |-> 8, kids |-> <<>>]>>], [op |-> 2118, nt |-> 0, kids |-> <<[op |-> 0, nt |-> 8, kids |-> <<>>]>>]>>]],  \* 318 stmt: LTU2(INDIRU2(faddr),INDIRU2(faddr))
    [lhs |-> 1, pat |-> [op |-> 2597, nt |-> 0, kids |-> <<[op |-> 0, nt |-> 2, kids |-> <<>>], [op |-> 2117, nt |-> 0, kids |-> <<[op |-> 0, nt |-> 8, kids |-> <<>>]>>]>>]],  \* 319 stmt: LTI2(reg,INDIRI2(faddr))
    [lhs |-> 1, pat |-> [op |-> 2598, nt |-> 0, kids |-> <<[op |-> 0, nt |-> 2, kids |-> <<>>], [op |-> 2118, nt |-> 0, kids |-> <<[op |-> 0, nt |-> 8, kids |-> <<>>]>>]>>]],  \* 320 stmt: LTU2(reg,INDIRU2(faddr))
    [lhs |-> 1, pat |-> [op |-> 2597, nt |-> 0, kids |-> <<[op |-> 0, nt |-> 2, kids |-> <<>>], [op |-> 0, nt |-> 2, kids |-> <<>>]>>]],  \* 321 stmt: LTI2(reg,reg)
    [lhs |-> 1, pat |-> [op |-> 2598, nt |-> 0, kids |-> <<[op |-> 0, nt |-> 2, kids |-> <<>>], [op |-> 0, nt |-> 2, kids |-> <<>>]>>]],  \* 322 stmt: LTU2(reg,reg)
    [lhs |-> 1, pat |-> [op |-> 2581, nt |-> 0, kids |-> <<[op |-> 2117, nt |-> 0, kids |-> <<[op |-> 0, nt |-> 8, kids |-> <<>>]>>], [op |-> 2117, nt |-> 0, kids |-> <<[op |-> 0, nt |-> 8, kids |-> <<>>]>>]>>]],  \* 323 stmt: LEI2(INDIRI2(faddr),INDIRI2(faddr))
    [lhs |-> 1, pat |-> [op |-> 2582, nt |-> 0, kids |-> <<[op |-> 2118, nt |-> 0, kids |-> <<[op |-> 0, nt |-> 8, kids |-> <<>>]>>], [op |-> 2118, nt |-> 0, kids |-> <<[op |-> 0, nt |-> 8, kids |-> <<>>]>>]>>]],  \* 324 stmt: LEU2(INDIRU2(faddr),INDIRU2(faddr))
    [lhs |-> 1, pat |-> [op |-> 2581, nt |-> 0, kids |-> <<[op |-> 0, nt |-> 2, kids |-> <<>>], [op |-> 2117, nt |-> 0, kids |-> <<[op |-> 0, nt |-> 8, kids |-> <<>>]>>]>>]],  \* 325 stmt: LEI2(reg,INDIRI2(faddr))
    [lhs |-> 1, pat |-> [op |-> 2582, nt |-> 0, kids |-> <<[op |-> 0, nt |-> 2, kids |-> <<>>], [op |-> 2118, nt |-> 0, kids |-> <<[op |-> 0, nt |-> 8, kids |-> <<>>]>>]>>]],  \* 326 stmt: LEU2(reg,INDIRU2(faddr))
    [lhs |-> 1, pat |-> [op |-> 2581, nt |-> 0, kids |-> <<[op |-> 0, nt |-> 2, kids |-> <<>>], [op |-> 0, nt |-> 2, kids |-> <<>>]>>]],  \* 327 stmt: LEI2(reg,reg)
    [lhs |-> 1, pat |-> [op |-> 2582, nt |-> 0, kids |-> <<[op |-> 0, nt |-> 2, kids |-> <<>>], [op |-> 0, nt |-> 2, kids |-> <<>>]>>]],  \* 328 stmt: LEU2(reg,reg)
    [lhs |-> 1, pat |-> [op |-> 2565, nt |-> 0, kids |-> <<[op |-> 2117, nt |-> 0, kids |-> <<[op |-> 0, nt |-> 8, kids |-> <<>>]>>], [op |-> 2117, nt |-> 0, kids |-> <<[op |-> 0, nt |-> 8, kids |-> <<>>]>>]>>]],  \* 329 stmt: GTI2(INDIRI2(faddr),INDIRI2(faddr))
    [lhs |-> 1, pat |-> [op |-> 2566, nt |-> 0, kids |-> <<[op |-> 2118, nt |-> 0, kids |-> <<[op |-> 0, nt |-> 8, kids |-> <<>>]>>], [op |-> 2118, nt |-> 0, kids |-> <<[op |-> 0, nt |-> 8, kids |-> <<>>]>>]>>]],  \* 330 stmt: GTU2(INDIRU2(faddr),INDIRU2(faddr))
    [lhs |-> 1, pat |-> [op |-> 2565, nt |-> 0, kids |-> <<[op |-> 0, nt |-> 2, kids |-> <<>>], [op |-> 2117, nt |-> 0, kids |-> <<[op |-> 0, nt |-> 8, kids |-> <<>>]>>]>>]],  \* 331 stmt: GTI2(reg,INDIRI2(faddr))
    [lhs |-> 1, pat |-> [op |-> 2566, nt |-> 0, kids |-> <<[op |-> 0, nt |-> 2, kids |-> <<>>], [op |-> 2118, nt |-> 0, kids |-> <<[op |-> 0, nt |-> 8, kids |-> <<>>]>>]>>]],  \* 332 stmt: GTU2(reg,INDIRU2(faddr))
    [lhs |-> 1, pat |-> [op |-> 2565, nt |-> 0, kids |-> <<[op |-> 0, nt |-> 2, kids |-> <<>>], [op |-> 0, nt |-> 2, kids |-> <<>>]>>]],  \* 333 stmt: GTI2(reg,reg)
    [lhs |-> 1, pat |-> [op |-> 2566, nt |-> 0, kids |-> <<[op |-> 0, nt |-> 2, kids |-> <<>>], [op |-> 0, nt |-> 2, kids |-> <<>>]>>]],  \* 334 stmt: GTU2(reg,reg)
    [lhs |-> 1, pat |-> [op |-> 2549, nt |-> 0, kids |-> <<[op |-> 2117, nt |-> 0, kids |-> <<[op |-> 0, nt |-> 8, kids |-> <<>>]>>], [op |-> 2117, nt |-> 0, kids |-> <<[op |-> 0, nt |-> 8, kids |-> <<>>]>>]>>]],  \* 335 stmt: GEI2(INDIRI2(faddr),INDIRI2(faddr))
    [lhs |-> 1, pat |-> [op |-> 2550, nt |-> 0, kids |-> <<[op |-> 2118, nt |-> 0, kids |-> <<[op |-> 0, nt |-> 8, kids |-> <<>>]>>], [op |-> 2118, nt |-> 0, kids |-> <<[op |-> 0, nt |-> 8, kids |-> <<>>]>>]>>]],  \* 336 stmt: GEU2(INDIRU2(faddr),INDIRU2(faddr))
    [lhs |-> 1, pat |-> [op |-> 2549, nt |-> 0, kids |-> <<[op |-> 0, nt |-> 2, kids |-> <<>>], [op |-> 2117, nt |-> 0, kids |-> <<[op |-> 0, nt |-> 8, kids |-> <<>>]>>]>>]],  \* 337 stmt: GEI2(reg,INDIRI2(faddr))
    [lhs |-> 1, pat |-> [op |-> 2550, nt |-> 0, kids |-> <<[op |-> 0, nt |-> 2, kids |-> <<>>], [op |-> 2118, nt |-> 0, kids |-> <<[op |-> 0, nt |-> 8, kids |-> <<>>]>>]>>]],  \* 338 stmt: GEU2(reg,INDIRU2(faddr))
    [lhs |-> 1, pat |-> [op |-> 2549, nt |-> 0, kids |-> <<[op |-> 0, nt |-> 2, kids |-> <<>>], [op |-> 0, nt |-> 2, kids |-> <<>>]>>]],  \* 339 stmt: GEI2(reg,reg)
    [lhs |-> 1, pat |-> [op |-> 2550, nt |-> 0, kids |-> <<[op |-> 0, nt |-> 2, kids |-> <<>>], [op |-> 0, nt |-> 2, kids |-> <<>>]>>]],  \* 340 stmt: GEU2(reg,reg)
    [lhs |-> 1, pat |-> [op |-> 2581, nt |-> 0, kids |-> <<[op |-> 2117, nt |-> 0, kids |-> <<[op |-> 0, nt |-> 8, kids |-> <<>>]>>], [op |-> 0, nt |-> 3, kids |-> <<>>]>>]],  \* 341 stmt: LEI2(INDIRI2(faddr),con2)
    [lhs |-> 1, pat |-> [op |-> 2582, nt |-> 0, kids |-> <<[op |-> 2118, nt |-> 0, kids |-> <<[op |-> 0, nt |-> 8, kids |-> <<>>]>>], [op |-> 0, nt |-> 3, kids |-> <<>>]>>]],  \* 342 stmt: LEU2(INDIRU2(faddr),con2)
    [lhs |-> 1, pat |-> [op |-> 2581, nt |-> 0, kids |-> <<[op |-> 0, nt |-> 2, kids |-> <<>>], [op |-> 0, nt |-> 3, kids |-> <<>>]>>]],  \* 343 stmt: LEI2(reg,con2)
    [lhs |-> 1, pat |-> [op |-> 2582, nt |-> 0, kids |-> <<[op |-> 0, nt |-> 2, kids |-> <<>>], [op |-> 0, nt |-> 3, kids |-> <<>>]>>]],  \* 344 stmt: LEU2(reg,con2)
    [lhs |-> 1, pat |-> [op |-> 2565, nt |-> 0, kids |-> <<[op |-> 2117, nt |-> 0, kids |-> <<[op |-> 0, nt |-> 8, kids |-> <<>>]>>], [op |-> 0, nt |-> 3, kids |-> <<>>]>>]],  \* 345 stmt: GTI2(INDIRI2(faddr),con2)
    [lhs |-> 1, pat |-> [op |-> 2566, nt |-> 0, kids |-> <<[op |-> 2118, nt |-> 0, kids |-> <<[op |-> 0, nt |-> 8, kids |-> <<>>]>>], [op |-> 0, nt |-> 3, kids |-> <<>>]>>]],  \* 346 stmt: GTU2(INDIRU2(faddr),con2)
    [lhs |-> 1, pat |-> [op |-> 2565, nt |-> 0, kids |-> <<[op |-> 0, nt |-> 2, kids |-> <<>>], [op |-> 0, nt |-> 3, kids |-> <<>>]>>]],  \* 347 stmt: GTI2(reg,con2)
    [lhs |-> 1, pat |-> [op |-> 2566, nt |-> 0, kids |-> <<[op |-> 0, nt |-> 2, kids |-> <<>>], [op |-> 0, nt |-> 3, kids |-> <<>>]>>]],  \* 348 stmt: GTU2(reg,con2)
    [lhs |-> 1, pat |-> [op |-> 2549, nt |-> 0, kids |-> <<[op |-> 2117, nt |-> 0, kids |-> <<[op |-> 0, nt |-> 8, kids |-> <<>>]>>], [op |-> 0, nt |-> 3, kids |-> <<>>]>>]],  \* 349 stmt: GEI2(INDIRI2(faddr),con2)
    [lhs |-> 1, pat |-> [op |-> 2550, nt |-> 0, kids |-> <<[op |-> 2118, nt |-> 0, kids |-> <<[op |-> 0, nt |-> 8, kids |-> <<>>]>>], [op |-> 0, nt |-> 3, kids |-> <<>>]>>]],  \* 350 stmt: GEU2(INDIRU2(faddr),con2)
    [lhs |-> 1, pat |-> [op |-> 2549, nt |-> 0, kids |-> <<[op |-> 0, nt |-> 2, kids |-> <<>>], [op |-> 0, nt |-> 3, kids |-> <<>>]>>]],  \* 351 stmt: GEI2(reg,con2)
    [lhs |-> 1, pat |-> [op |-> 2550, nt |-> 0, kids |-> <<[op |-> 0, nt |-> 2, kids |-> <<>>], [op |-> 0, nt |-> 3, kids |-> <<>>]>>]],  \* 352 stmt: GEU2(reg,con2)
    [lhs |-> 1, pat |-> [op |-> 2597, nt |-> 0, kids |-> <<[op |-> 2117, nt |-> 0, kids |-> <<[op |-> 0, nt |-> 8, kids |-> <<>>]>>], [op |-> 0, nt |-> 3, kids |-> <<>>]>>]],  \* 353 stmt: LTI2(INDIRI2(faddr),con2)
    [lhs |-> 1, pat |-> [op |-> 2598, nt |-> 0, kids |-> <<[op |-> 2118, nt |-> 0, kids |-> <<[op |-> 0, nt |-> 8, kids |-> <<>>]>>], [op |-> 0, nt |-> 3, kids |-> <<>>]>>]],  \* 354 stmt: LTU2(INDIRU2(faddr),con2)
    [lhs |-> 1, pat |-> [op |-> 2597, nt |-> 0, kids |-> <<[op |-> 0, nt |-> 2, kids |-> <<>>], [op |-> 0, nt |-> 3, kids |-> <<>>]>>]],  \* 355 stmt: LTI2(reg,con2)
    [lhs |-> 1, pat |-> [op |-> 2598, nt |-> 0, kids |-> <<[op |-> 0, nt |-> 2, kids |-> <<>>], [op |-> 0, nt |-> 3, kids |-> <<>>]>>]],  \* 356 stmt: LTU2(reg,con2)
    [lhs |-> 1, pat |-> [op |-> 2533, nt |-> 0, kids |-> <<[op |-> 2117, nt |-> 0, kids |-> <<[op |-> 0, nt |-> 8, kids |-> <<>>]>>], [op |-> 0, nt |-> 3, kids |-> <<>>]>>]],  \* 357 stmt: EQI2(INDIRI2(faddr),con2)
    [lhs |-> 1, pat |-> [op |-> 2534, nt |-> 0, kids |-> <<[op |-> 2118, nt |-> 0, kids |-> <<[op |-> 0, nt |-> 8, kids |-> <<>>]>>], [op |-> 0, nt |-> 3, kids |-> <<>>]>>]],  \* 358 stmt: EQU2(INDIRU2(faddr),con2)
    [lhs |-> 1, pat |-> [op |-> 2533, nt |-> 0, kids |-> <<[op |-> 0, nt |-> 2, kids |-> <<>>], [op |-> 0, nt |-> 3, kids |-> <<>>]>>]],  \* 359 stmt: EQI2(reg,con2)
    [lhs |-> 1, pat |-> [op |-> 2534, nt |-> 0, kids |-> <<[op |-> 0, nt |-> 2, kids |-> <<>>], [op |-> 0, nt |-> 3, kids |-> <<>>]>>]],  \* 360 stmt: EQU2(reg,con2)
    [lhs |-> 1, pat |-> [op |-> 2613, nt |-> 0, kids |-> <<[op |-> 2117, nt |-> 0, kids |-> <<[op |-> 0, nt |-> 8, kids |-> <<>>]>>], [op |-> 0, nt |-> 3, kids |-> <<>>]>>]],  \* 361 stmt: NEI2(INDIRI2(faddr),con2)
    [lhs |-> 1, pat |-> [op |-> 2614, nt |-> 0, kids |-> <<[op |-> 2118, nt |-> 0, kids |-> <<[op |-> 0, nt |-> 8, kids |-> <<>>]>>], [op |-> 0, nt |-> 3, kids |-> <<>>]>>]],  \* 362 stmt: NEU2(INDIRU2(faddr),con2)
    [lhs |-> 1, pat |-> [op |-> 2613, nt |-> 0, kids |-> <<[op |-> 0, nt |-> 2, kids |-> <<>>], [op |-> 0, nt |-> 3, kids |-> <<>>]>>]],  \* 363 stmt: NEI2(reg,con2)
    [lhs |-> 1, pat |-> [op |-> 2614, nt |-> 0, kids |-> <<[op |-> 0, nt |-> 2, kids |-> <<>>], [op |-> 0, nt |-> 3, kids |-> <<>>]>>]],  \* 364 stmt: NEU2(reg,con2)
    [lhs |-> 1, pat |-> [op |-> 1061, nt |-> 0, kids |-> <<[op |-> 0, nt |-> 2, kids |-> <<>>]>>]],  \* 365 stmt: ARGI1(reg)
    [lhs |-> 1, pat |-> [op |-> 1062, nt |-> 0, kids |-> <<[op |-> 0, nt |-> 2, kids |-> <<>>]>>]],  \* 366 stmt: ARGU1(reg)
    [lhs |-> 1, pat |-> [op |-> 2085, nt |-> 0, kids |-> <<[op |-> 0, nt |-> 2, kids |-> <<>>]>>]],  \* 367 stmt: ARGI2(reg)
    [lhs |-> 1, pat |-> [op |-> 2086, nt |-> 0, kids |-> <<[op |-> 0, nt |-> 2, kids |-> <<>>]>>]],  \* 368 stmt: ARGU2(reg)
    [lhs |-> 1, pat |-> [op |-> 2087, nt |-> 0, kids |-> <<[op |-> 0, nt |-> 2, kids |-> <<>>]>>]],  \* 369 stmt: ARGP2(reg)
    [lhs |-> 1, pat |-> [op |-> 4133, nt |-> 0, kids |-> <<[op |-> 0, nt |-> 2, kids |-> <<>>]>>]],  \* 370 stmt: ARGI4(reg)
    [lhs |-> 1, pat |-> [op |-> 4134, nt |-> 0, kids |-> <<[op |-> 0, nt |-> 2, kids |-> <<>>]>>]],  \* 371 stmt: ARGU4(reg)
    [lhs |-> 1, pat |-> [op |-> 4135, nt |-> 0, kids |-> <<[op |-> 0, nt |-> 2, kids |-> <<>>]>>]],  \* 372 stmt: ARGP4(reg)
    [lhs |-> 2, pat |-> [op |-> 1237, nt |-> 0, kids |-> <<[op |-> 0, nt |-> 7, kids |-> <<>>]>>]],  \* 373 reg: CALLI1(addr)
    [lhs |-> 2, pat |-> [op |-> 1238, nt |-> 0, kids |-> <<[op |-> 0, nt |-> 7, kids |-> <<>>]>>]],  \* 374 reg: CALLU1(addr)
    [lhs |-> 2, pat |-> [op |-> 2261, nt |-> 0, kids |-> <<[op |-> 0, nt |-> 7, kids |-> <<>>]>>]],  \* 375 reg: CALLI2(addr)
    [lhs |-> 2, pat |-> [op |-> 2262, nt |-> 0, kids |-> <<[op |-> 0, nt |-> 7, kids |-> <<>>]>>]],  \* 376 reg: CALLU2(addr)
    [lhs |-> 2, pat |-> [op |-> 2263, nt |-> 0, kids |-> <<[op |-> 0, nt |-> 7, kids |-> <<>>]>>]],  \* 377 reg: CALLP2(addr)
    [lhs |-> 2, pat |-> [op |-> 4309, nt |-> 0, kids |-> <<[op |-> 0, nt |-> 7, kids |-> <<>>]>>]],  \* 378 reg: CALLI4(addr)
    [lhs |-> 2, pat |-> [op |-> 4310, nt |-> 0, kids |-> <<[op |-> 0, nt |-> 7, kids |-> <<>>]>>]],  \* 379 reg: CALLU4(addr)
    [lhs |-> 2, pat |-> [op |-> 4311, nt |-> 0, kids |-> <<[op |-> 0, nt |-> 7, kids |-> <<>>]>>]],  \* 380 reg: CALLP4(addr)
    [lhs |-> 1, pat |-> [op |-> 216, nt |-> 0, kids |-> <<[op |-> 0, nt |-> 7, kids |-> <<>>]>>]],  \* 381 stmt: CALLV(addr)
    [lhs |-> 1, pat |-> [op |-> 1269, nt |-> 0, kids |-> <<[op |-> 0, nt |-> 2, kids |-> <<>>]>>]],  \* 382 stmt: RETI1(reg)
    [lhs |-> 1, pat |-> [op |-> 1270, nt |-> 0, kids |-> <<[op |-> 0, nt |-> 2, kids |-> <<>>]>>]],  \* 383 stmt: RETU1(reg)
    [lhs |-> 1, pat |-> [op |-> 2293, nt |-> 0, kids |-> <<[op |-> 0, nt |-> 2, kids |-> <<>>]>>]],  \* 384 stmt: RETI2(reg)
    [lhs |-> 1, pat |-> [op |-> 2294, nt |-> 0, kids |-> <<[op |-> 0, nt |-> 2, kids |-> <<>>]>>]],  \* 385 stmt: RETU2(reg)
    [lhs |-> 1, pat |-> [op |-> 2295, nt |-> 0, kids |-> <<[op |-> 0, nt |-> 2, kids |-> <<>>]>>]],  \* 386 stmt: RETP2(reg)
    [lhs |-> 1, pat |-> [op |-> 4341, nt |-> 0, kids |-> <<[op |-> 0, nt |-> 2, kids |-> <<>>]>>]],  \* 387 stmt: RETI4(reg)
    [lhs |-> 1, pat |-> [op |-> 4342, nt |-> 0, kids |-> <<[op |-> 0, nt |-> 2, kids |-> <<>>]>>]],  \* 388 stmt: RETU4(reg)
    [lhs |-> 1, pat |-> [op |-> 4343, nt |-> 0, kids |-> <<[op |-> 0, nt |-> 2, kids |-> <<>>]>>]],  \* 389 stmt: RETP4(reg)
    [lhs |-> 1, pat |-> [op |-> 248, nt |-> 0, kids |-> <<>>]],  \* 390 stmt: RETV
    [lhs |-> 2, pat |-> [op |-> 1253, nt |-> 0, kids |-> <<[op |-> 0, nt |-> 2, kids |-> <<>>]>>]],  \* 391 reg: LOADI1(reg)
    [lhs |-> 2, pat |-> [op |-> 1254, nt |-> 0, kids |-> <<[op |-> 0, nt |-> 2, kids |-> <<>>]>>]],  \* 392 reg: LOADU1(reg)
    [lhs |-> 2, pat |-> [op |-> 2277, nt |-> 0, kids |-> <<[op |-> 0, nt |-> 2, kids |-> <<>>]>>]],  \* 393 reg: LOADI2(reg)
    [lhs |-> 2, pat |-> [op |-> 2278, nt |-> 0, kids |-> <<[op |-> 0, nt |-> 2, kids |-> <<>>]>>]],  \* 394 reg: LOADU2(reg)
    [lhs |-> 2, pat |-> [op |-> 2279, nt |-> 0, kids |-> <<[op |-> 0, nt |-> 2, kids |-> <<>>]>>]],  \* 395 reg: LOADP2(reg)
    [lhs |-> 2, pat |-> [op |-> 4325, nt |-> 0, kids |-> <<[op |-> 0, nt |-> 2, kids |-> <<>>]>>]],  \* 396 reg: LOADI4(reg)
    [lhs |-> 2, pat |-> [op |-> 4326, nt |-> 0, kids |-> <<[op |-> 0, nt |-> 2, kids |-> <<>>]>>]],  \* 397 reg: LOADU4(reg)
    [lhs |-> 2, pat |-> [op |-> 4327, nt |-> 0, kids |-> <<[op |-> 0, nt |-> 2, kids |-> <<>>]>>]],  \* 398 reg: LOADP4(reg)
    [lhs |-> 1, pat |-> [op |-> 0, nt |-> 2, kids |-> <<>>]]   \* 399 stmt: reg
  >>

(* The switch of _label: per operator, the _label calls on the children and the
   rules in the order the case evaluates them.  cond: the ->op tests; term: the
   child costs summed into c; k: the constant added; rng: range(a, lo, hi);
   mv: move(a); nt/irule: the cost and rule fields assigned; recalc: the rule
   is preceded by the mayrecalc copy *)

_label_cases ==
  <<
    [op |-> 41, labels |-> <<>>, rules |-> <<>>],  \* ARGB
    [op |-> 57, labels |-> <<>>, rules |-> <<>>],  \* ASGNB
    [op |-> 73, labels |-> <<>>, rules |-> <<>>],  \* INDIRB
    [op |-> 216, labels |-> <<<<0>>>>, rules |-> <<
      [cond |-> <<>>, term |-> <<<<<<0>>, 7>>>>, k |-> 5, rng |-> <<>>, mv |-> FALSE, nt |-> 1, irule |-> 123, recalc |-> FALSE] >>],  \* CALLV
    [op |-> 217, labels |-> <<>>, rules |-> <<>>],  \* CALLB
    [op |-> 248, labels |-> <<>>, rules |-> <<
      [cond |-> <<>>, term |-> <<>>, k |-> 0, rng |-> <<>>, mv |-> FALSE, nt |-> 1, irule |-> 132, recalc |-> FALSE] >>],  \* RETV
    [op |-> 584, labels |-> <<<<0>>>>, rules |-> <<
      [cond |-> <<>>, term |-> <<<<<<0>>, 7>>>>, k |-> 1, rng |-> <<>>, mv |-> FALSE, nt |-> 1, irule |-> 29, recalc |-> FALSE],
      [cond |-> <<>>, term |-> <<<<<<0>>, 2>>>>, k |-> 10, rng |-> <<>>, mv |-> FALSE, nt |-> 1, irule |-> 30, recalc |-> FALSE] >>],  \* JUMPV
    [op |-> 600, labels |-> <<>>, rules |-> <<
      [cond |-> <<>>, term |-> <<>>, k |-> 0, rng |-> <<>>, mv |-> FALSE, nt |-> 1, irule |-> 28, recalc |-> FALSE] >>],  \* LABELV
    [op |-> 711, labels |-> <<>>, rules |-> <<>>],  \* VREGP
    [op |-> 1045, labels |-> <<>>, rules |-> <<
      [cond |-> <<>>, term |-> <<>>, k |-> 0, rng |-> <<>>, mv |-> FALSE, nt |-> 4, irule |-> 1, recalc |-> FALSE],
      [cond |-> <<>>, term |-> <<>>, k |-> 0, rng |-> <<1, 1>>, mv |-> FALSE, nt |-> 6, irule |-> 1, recalc |-> FALSE] >>],  \* CNSTI1
    [op |-> 1046, labels |-> <<>>, rules |-> <<
      [cond |-> <<>>, term |-> <<>>, k |-> 0, rng |-> <<>>, mv |-> FALSE, nt |-> 4, irule |-> 2, recalc |-> FALSE],
      [cond |-> <<>>, term |-> <<>>, k |-> 0, rng |-> <<1, 1>>, mv |-> FALSE, nt |-> 6, irule |-> 2, recalc |-> FALSE] >>],  \* CNSTU1
    [op |-> 1061, labels |-> <<<<0>>>>, rules |-> <<
      [cond |-> <<>>, term |-> <<<<<<0>>, 2>>>>, k |-> 1, rng |-> <<>>, mv |-> FALSE, nt |-> 1, irule |-> 115, recalc |-> FALSE] >>],  \* ARGI1
    [op |-> 1062, labels |-> <<<<0>>>>, rules |-> <<
      [cond |-> <<>>, term |-> <<<<<<0>>, 2>>>>, k |-> 1, rng |-> <<>>, mv |-> FALSE, nt |-> 1, irule |-> 116, recalc |-> FALSE] >>],  \* ARGU1
    [op |-> 1077, labels |-> <<<<0>>, <<1>>>>, rules |-> <<
      [cond |-> <<<<<<0>>, 711>>>>, term |-> <<<<<<1>>, 2>>>>, k |-> 0, rng |-> <<>>, mv |-> FALSE, nt |-> 1, irule |-> 1, recalc |-> FALSE],
      [cond |-> <<>>, term |-> <<<<<<0>>, 8>>, <<<<1>>, 2>>>>, k |-> 1, rng |-> <<>>, mv |-> FALSE, nt |-> 1, irule |-> 9, recalc |-> FALSE],
      [cond |-> <<>>, term |-> <<<<<<0>>, 7>>, <<<<1>>, 2>>>>, k |-> 2, rng |-> <<>>, mv |-> FALSE, nt |-> 1, irule |-> 14, recalc |-> FALSE],
      [cond |-> <<<<<<0>>, 2357>>>>, term |-> <<<<<<0, 0>>, 7>>, <<<<0, 1>>, 2>>, <<<<1>>, 2>>>>, k |-> 5, rng |-> <<>>, mv |-> FALSE, nt |-> 1, irule |-> 22, recalc |-> FALSE],
      [cond |-> <<<<<<0>>, 2359>>>>, term |-> <<<<<<0, 0>>, 7>>, <<<<0, 1>>, 2>>, <<<<1>>, 2>>>>, k |-> 5, rng |-> <<>>, mv |-> FALSE, nt |-> 1, irule |-> 24, recalc |-> FALSE],
      [cond |-> <<<<<<0>>, 2359>>>>, term |-> <<<<<<0, 0>>, 2>>, <<<<0, 1>>, 7>>, <<<<1>>, 2>>>>, k |-> 5, rng |-> <<>>, mv |-> FALSE, nt |-> 1, irule |-> 26, recalc |-> FALSE] >>],  \* ASGNI1
    [op |-> 1078, labels |-> <<<<0>>, <<1>>>>, rules |-> <<
      [cond |-> <<<<<<0>>, 711>>>>, term |-> <<<<<<1>>, 2>>>>, k |-> 0, rng |-> <<>>, mv |-> FALSE, nt |-> 1, irule |-> 2, recalc |-> FALSE],
      [cond |-> <<>>, term |-> <<<<<<0>>, 8>>, <<<<1>>, 2>>>>, k |-> 1, rng |-> <<>>, mv |-> FALSE, nt |-> 1, irule |-> 10, recalc |-> FALSE],
      [cond |-> <<>>, term |-> <<<<<<0>>, 7>>, <<<<1>>, 2>>>>, k |-> 2, rng |-> <<>>, mv |-> FALSE, nt |-> 1, irule |-> 15, recalc |-> FALSE],
      [cond |-> <<<<<<0>>, 2357>>>>, term |-> <<<<<<0, 0>>, 7>>, <<<<0, 1>>, 2>>, <<<<1>>, 2>>>>, k |-> 5, rng |-> <<>>, mv |-> FALSE, nt |-> 1, irule |-> 23, recalc |-> FALSE],
      [cond |-> <<<<<<0>>, 2359>>>>, term |-> <<<<<<0, 0>>, 7>>, <<<<0, 1>>, 2>>, <<<<1>>, 2>>>>, k |-> 5, rng |-> <<>>, mv |-> FALSE, nt |-> 1, irule |-> 25, recalc |-> FALSE],
      [cond |-> <<<<<<0>>, 2359>>>>, term |-> <<<<<<0, 0>>, 2>>, <<<<0, 1>>, 7>>, <<<<1>>, 2>>>>, k |-> 5, rng |-> <<>>, mv |-> FALSE, nt |-> 1, irule |-> 27, recalc |-> FALSE] >>],  \* ASGNU1
    [op |-> 1093, labels |-> <<<<0>>>>, rules |-> <<
      [cond |-> <<<<<<0>>, 711>>>>, term |-> <<>>, k |-> 0, rng |-> <<>>, mv |-> FALSE, nt |-> 2, irule |-> 1, recalc |-> TRUE],
      [cond |-> <<>>, term |-> <<<<<<0>>, 8>>>>, k |-> 1, rng |-> <<>>, mv |-> FALSE, nt |-> 2, irule |-> 30, recalc |-> FALSE],
      [cond |-> <<>>, term |-> <<<<<<0>>, 7>>>>, k |-> 2, rng |-> <<>>, mv |-> FALSE, nt |-> 2, irule |-> 35, recalc |-> FALSE],
      [cond |-> <<<<<<0>>, 2357>>>>, term |-> <<<<<<0, 0>>, 7>>, <<<<0, 1>>, 2>>>>, k |-> 3, rng |-> <<>>, mv |-> FALSE, nt |-> 2, irule |-> 43, recalc |-> FALSE],
      [cond |-> <<<<<<0>>, 2359>>>>, term |-> <<<<<<0, 0>>, 7>>, <<<<0, 1>>, 2>>>>, k |-> 3, rng |-> <<>>, mv |-> FALSE, nt |-> 2, irule |-> 45, recalc |-> FALSE],
      [cond |-> <<<<<<0>>, 2359>>>>, term |-> <<<<<<0, 0>>, 2>>, <<<<0, 1>>, 7>>>>, k |-> 3, rng |-> <<>>, mv |-> FALSE, nt |-> 2, irule |-> 47, recalc |-> FALSE] >>],  \* INDIRI1
    [op |-> 1094, labels |-> <<<<0>>>>, rules |-> <<
      [cond |-> <<<<<<0>>, 711>>>>, term |-> <<>>, k |-> 0, rng |-> <<>>, mv |-> FALSE, nt |-> 2, irule |-> 2, recalc |-> TRUE],
      [cond |-> <<>>, term |-> <<<<<<0>>, 8>>>>, k |-> 1, rng |-> <<>>, mv |-> FALSE, nt |-> 2, irule |-> 31, recalc |-> FALSE],
      [cond |-> <<>>, term |-> <<<<<<0>>, 7>>>>, k |-> 2, rng |-> <<>>, mv |-> FALSE, nt |-> 2, irule |-> 36, recalc |-> FALSE],
      [cond |-> <<<<<<0>>, 2357>>>>, term |-> <<<<<<0, 0>>, 7>>, <<<<0, 1>>, 2>>>>, k |-> 3, rng |-> <<>>, mv |-> FALSE, nt |-> 2, irule |-> 44, recalc |-> FALSE],
      [cond |-> <<<<<<0>>, 2359>>>>, term |-> <<<<<<0, 0>>, 7>>, <<<<0, 1>>, 2>>>>, k |-> 3, rng |-> <<>>, mv |-> FALSE, nt |-> 2, irule |-> 46, recalc |-> FALSE],
      [cond |-> <<<<<<0>>, 2359>>>>, term |-> <<<<<<0, 0>>, 2>>, <<<<0, 1>>, 7>>>>, k |-> 3, rng |-> <<>>, mv |-> FALSE, nt |-> 2, irule |-> 48, recalc |-> FALSE] >>],  \* INDIRU1
    [op |-> 1157, labels |-> <<<<0>>>>, rules |-> <<
      [cond |-> <<>>, term |-> <<<<<<0>>, 2>>>>, k |-> 1, rng |-> <<>>, mv |-> FALSE, nt |-> 2, irule |-> 215, recalc |-> FALSE],
      [cond |-> <<<<<<0>>, 2117>>>>, term |-> <<<<<<0, 0>>, 7>>>>, k |-> 2, rng |-> <<>>, mv |-> FALSE, nt |-> 2, irule |-> 223, recalc |-> FALSE] >>],  \* CVII1
    [op |-> 1158, labels |-> <<<<0>>>>, rules |-> <<
      [cond |-> <<>>, term |-> <<<<<<0>>, 2>>>>, k |-> 1, rng |-> <<>>, mv |-> FALSE, nt |-> 2, irule |-> 216, recalc |-> FALSE] >>],  \* CVIU1
    [op |-> 1205, labels |-> <<<<0>>>>, rules |-> <<
      [cond |-> <<>>, term |-> <<<<<<0>>, 2>>>>, k |-> 1, rng |-> <<>>, mv |-> FALSE, nt |-> 2, irule |-> 217, recalc |-> FALSE] >>],  \* CVUI1
    [op |-> 1206, labels |-> <<<<0>>>>, rules |-> <<
      [cond |-> <<>>, term |-> <<<<<<0>>, 2>>>>, k |-> 1, rng |-> <<>>, mv |-> FALSE, nt |-> 2, irule |-> 218, recalc |-> FALSE],
      [cond |-> <<<<<<0>>, 2118>>>>, term |-> <<<<<<0, 0>>, 7>>>>, k |-> 2, rng |-> <<>>, mv |-> FALSE, nt |-> 2, irule |-> 224, recalc |-> FALSE] >>],  \* CVUU1
    [op |-> 1221, labels |-> <<<<0>>>>, rules |-> <<
      [cond |-> <<>>, term |-> <<<<<<0>>, 2>>>>, k |-> 1, rng |-> <<>>, mv |-> FALSE, nt |-> 2, irule |-> 73, recalc |-> FALSE] >>],  \* NEGI1
    [op |-> 1237, labels |-> <<<<0>>>>, rules |-> <<
      [cond |-> <<>>, term |-> <<<<<<0>>, 7>>>>, k |-> 5, rng |-> <<>>, mv |-> FALSE, nt |-> 2, irule |-> 233, recalc |-> FALSE] >>],  \* CALLI1
    [op |-> 1238, labels |-> <<<<0>>>>, rules |-> <<
      [cond |-> <<>>, term |-> <<<<<<0>>, 7>>>>, k |-> 5, rng |-> <<>>, mv |-> FALSE, nt |-> 2, irule |-> 234, recalc |-> FALSE] >>],  \* CALLU1
    [op |-> 1253, labels |-> <<<<0>>>>, rules |-> <<
      [cond |-> <<>>, term |-> <<<<<<0>>, 2>>>>, k |-> 0, rng |-> <<>>, mv |-> TRUE, nt |-> 2, irule |-> 241, recalc |-> FALSE] >>],  \* LOADI1
    [op |-> 1254, labels |-> <<<<0>>>>, rules |-> <<
      [cond |-> <<>>, term |-> <<<<<<0>>, 2>>>>, k |-> 0, rng |-> <<>>, mv |-> TRUE, nt |-> 2, irule |-> 242, recalc |-> FALSE] >>],  \* LOADU1
    [op |-> 1269, labels |-> <<<<0>>>>, rules |-> <<
      [cond |-> <<>>, term |-> <<<<<<0>>, 2>>>>, k |-> 0, rng |-> <<>>, mv |-> FALSE, nt |-> 1, irule |-> 124, recalc |-> FALSE] >>],  \* RETI1
    [op |-> 1270, labels |-> <<<<0>>>>, rules |-> <<
      [cond |-> <<>>, term |-> <<<<<<0>>, 2>>>>, k |-> 0, rng |-> <<>>, mv |-> FALSE, nt |-> 1, irule |-> 125, recalc |-> FALSE] >>],  \* RETU1
    [op |-> 1333, labels |-> <<<<0>>, <<1>>>>, rules |-> <<
      [cond |-> <<<<<<0>>, 1093>>, <<<<1>>, 1093>>>>, term |-> <<<<<<0, 0>>, 7>>, <<<<1, 0>>, 7>>>>, k |-> 2, rng |-> <<>>, mv |-> FALSE, nt |-> 2, irule |-> 49, recalc |-> FALSE],
      [cond |-> <<<<<<0>>, 1094>>, <<<<1>>, 1094>>>>, term |-> <<<<<<0, 0>>, 7>>, <<<<1, 0>>, 7>>>>, k |-> 2, rng |-> <<>>, mv |-> FALSE, nt |-> 2, irule |-> 51, recalc |-> FALSE],
      [cond |-> <<<<<<0>>, 1253>>, <<<<0, 0>>, 1094>>, <<<<1>>, 1253>>, <<<<1, 0>>, 1094>>>>, term |-> <<<<<<0, 0, 0>>, 7>>, <<<<1, 0, 0>>, 7>>>>, k |-> 2, rng |-> <<>>, mv |-> FALSE, nt |-> 2, irule |-> 52, recalc |-> FALSE],
      [cond |-> <<>>, term |-> <<<<<<0>>, 2>>, <<<<1>>, 2>>>>, k |-> 10, rng |-> <<>>, mv |-> FALSE, nt |-> 2, irule |-> 54, recalc |-> FALSE],
      [cond |-> <<<<<<1>>, 1093>>>>, term |-> <<<<<<0>>, 2>>, <<<<1, 0>>, 7>>>>, k |-> 1, rng |-> <<>>, mv |-> FALSE, nt |-> 2, irule |-> 56, recalc |-> FALSE],
      [cond |-> <<<<<<1>>, 1094>>>>, term |-> <<<<<<0>>, 2>>, <<<<1, 0>>, 7>>>>, k |-> 1, rng |-> <<>>, mv |-> FALSE, nt |-> 2, irule |-> 58, recalc |-> FALSE],
      [cond |-> <<>>, term |-> <<<<<<0>>, 2>>, <<<<1>>, 6>>>>, k |-> 1, rng |-> <<>>, mv |-> FALSE, nt |-> 2, irule |-> 59, recalc |-> FALSE] >>],  \* ADDI1
    [op |-> 1334, labels |-> <<<<0>>, <<1>>>>, rules |-> <<
      [cond |-> <<<<<<0>>, 1094>>, <<<<1>>, 1094>>>>, term |-> <<<<<<0, 0>>, 7>>, <<<<1, 0>>, 7>>>>, k |-> 2, rng |-> <<>>, mv |-> FALSE, nt |-> 2, irule |-> 50, recalc |-> FALSE],
      [cond |-> <<<<<<0>>, 1254>>, <<<<0, 0>>, 1094>>, <<<<1>>, 1254>>, <<<<1, 0>>, 1094>>>>, term |-> <<<<<<0, 0, 0>>, 7>>, <<<<1, 0, 0>>, 7>>>>, k |-> 2, rng |-> <<>>, mv |-> FALSE, nt |-> 2, irule |-> 53, recalc |-> FALSE],
      [cond |-> <<>>, term |-> <<<<<<0>>, 2>>, <<<<1>>, 2>>>>, k |-> 10, rng |-> <<>>, mv |-> FALSE, nt |-> 2, irule |-> 55, recalc |-> FALSE],
      [cond |-> <<<<<<1>>, 1094>>>>, term |-> <<<<<<0>>, 2>>, <<<<1, 0>>, 7>>>>, k |-> 1, rng |-> <<>>, mv |-> FALSE, nt |-> 2, irule |-> 57, recalc |-> FALSE],
      [cond |-> <<>>, term |-> <<<<<<0>>, 2>>, <<<<1>>, 6>>>>, k |-> 1, rng |-> <<>>, mv |-> FALSE, nt |-> 2, irule |-> 60, recalc |-> FALSE] >>],  \* ADDU1
    [op |-> 1349, labels |-> <<<<0>>, <<1>>>>, rules |-> <<
      [cond |-> <<<<<<0>>, 1093>>, <<<<1>>, 1093>>>>, term |-> <<<<<<0, 0>>, 7>>, <<<<1, 0>>, 7>>>>, k |-> 2, rng |-> <<>>, mv |-> FALSE, nt |-> 2, irule |-> 61, recalc |-> FALSE],
      [cond |-> <<<<<<0>>, 1094>>, <<<<1>>, 1094>>>>, term |-> <<<<<<0, 0>>, 7>>, <<<<1, 0>>, 7>>>>, k |-> 2, rng |-> <<>>, mv |-> FALSE, nt |-> 2, irule |-> 63, recalc |-> FALSE],
      [cond |-> <<<<<<0>>, 1253>>, <<<<0, 0>>, 1094>>, <<<<1>>, 1253>>, <<<<1, 0>>, 1094>>>>, term |-> <<<<<<0, 0, 0>>, 7>>, <<<<1, 0, 0>>, 7>>>>, k |-> 2, rng |-> <<>>, mv |-> FALSE, nt |-> 2, irule |-> 64, recalc |-> FALSE],
      [cond |-> <<>>, term |-> <<<<<<0>>, 2>>, <<<<1>>, 2>>>>, k |-> 10, rng |-> <<>>, mv |-> FALSE, nt |-> 2, irule |-> 66, recalc |-> FALSE],
      [cond |-> <<<<<<1>>, 1093>>>>, term |-> <<<<<<0>>, 2>>, <<<<1, 0>>, 7>>>>, k |-> 1, rng |-> <<>>, mv |-> FALSE, nt |-> 2, irule |-> 68, recalc |-> FALSE],
      [cond |-> <<<<<<1>>, 1094>>>>, term |-> <<<<<<0>>, 2>>, <<<<1, 0>>, 7>>>>, k |-> 1, rng |-> <<>>, mv |-> FALSE, nt |-> 2, irule |-> 70, recalc |-> FALSE],
      [cond |-> <<>>, term |-> <<<<<<0>>, 2>>, <<<<1>>, 6>>>>, k |-> 1, rng |-> <<>>, mv |-> FALSE, nt |-> 2, irule |-> 71, recalc |-> FALSE] >>],  \* SUBI1
    [op |-> 1350, labels |-> <<<<0>>, <<1>>>>, rules |-> <<
      [cond |-> <<<<<<0>>, 1094>>, <<<<1>>, 1094>>>>, term |-> <<<<<<0, 0>>, 7>>, <<<<1, 0>>, 7>>>>, k |-> 2, rng |-> <<>>, mv |-> FALSE, nt |-> 2, irule |-> 62, recalc |-> FALSE],
      [cond |-> <<<<<<0>>, 1254>>, <<<<0, 0>>, 1094>>, <<<<1>>, 1254>>, <<<<1, 0>>, 1094>>>>, term |-> <<<<<<0, 0, 0>>, 7>>, <<<<1, 0, 0>>, 7>>>>, k |-> 2, rng |-> <<>>, mv |-> FALSE, nt |-> 2, irule |-> 65, recalc |-> FALSE],
      [cond |-> <<>>, term |-> <<<<<<0>>, 2>>, <<<<1>>, 2>>>>, k |-> 10, rng |-> <<>>, mv |-> FALSE, nt |-> 2, irule |-> 67, recalc |-> FALSE],
      [cond |-> <<<<<<1>>, 1094>>>>, term |-> <<<<<<0>>, 2>>, <<<<1, 0>>, 7>>>>, k |-> 1, rng |-> <<>>, mv |-> FALSE, nt |-> 2, irule |-> 69, recalc |-> FALSE],
      [cond |-> <<>>, term |-> <<<<<<0>>, 2>>, <<<<1>>, 6>>>>, k |-> 1, rng |-> <<>>, mv |-> FALSE, nt |-> 2, irule |-> 72, recalc |-> FALSE] >>],  \* SUBU1
    [op |-> 1365, labels |-> <<<<0>>, <<1>>>>, rules |-> <<
      [cond |-> <<>>, term |-> <<<<<<0>>, 2>>, <<<<1>>, 6>>>>, k |-> 1, rng |-> <<>>, mv |-> FALSE, nt |-> 2, irule |-> 207, recalc |-> FALSE],
      [cond |-> <<>>, term |-> <<<<<<0>>, 2>>, <<<<1>>, 2>>>>, k |-> 15, rng |-> <<>>, mv |-> FALSE, nt |-> 2, irule |-> 211, recalc |-> FALSE] >>],  \* LSHI1
    [op |-> 1366, labels |-> <<<<0>>, <<1>>>>, rules |-> <<
      [cond |-> <<>>, term |-> <<<<<<0>>, 2>>, <<<<1>>, 6>>>>, k |-> 1, rng |-> <<>>, mv |-> FALSE, nt |-> 2, irule |-> 208, recalc |-> FALSE],
      [cond |-> <<>>, term |-> <<<<<<0>>, 2>>, <<<<1>>, 2>>>>, k |-> 15, rng |-> <<>>, mv |-> FALSE, nt |-> 2, irule |-> 212, recalc |-> FALSE] >>],  \* LSHU1
    [op |-> 1381, labels |-> <<<<0>>, <<1>>>>, rules |-> <<
      [cond |-> <<>>, term |-> <<<<<<0>>, 2>>, <<<<1>>, 2>>>>, k |-> 3, rng |-> <<>>, mv |-> FALSE, nt |-> 2, irule |-> 127, recalc |-> FALSE] >>],  \* MODI1
    [op |-> 1382, labels |-> <<<<0>>, <<1>>>>, rules |-> <<
      [cond |-> <<>>, term |-> <<<<<<0>>, 2>>, <<<<1>>, 2>>>>, k |-> 3, rng |-> <<>>, mv |-> FALSE, nt |-> 2, irule |-> 128, recalc |-> FALSE] >>],  \* MODU1
    [op |-> 1397, labels |-> <<<<0>>, <<1>>>>, rules |-> <<
      [cond |-> <<>>, term |-> <<<<<<0>>, 2>>, <<<<1>>, 6>>>>, k |-> 1, rng |-> <<>>, mv |-> FALSE, nt |-> 2, irule |-> 210, recalc |-> FALSE],
      [cond |-> <<>>, term |-> <<<<<<0>>, 2>>, <<<<1>>, 2>>>>, k |-> 15, rng |-> <<>>, mv |-> FALSE, nt |-> 2, irule |-> 214, recalc |-> FALSE] >>],  \* RSHI1
    [op |-> 1398, labels |-> <<<<0>>, <<1>>>>, rules |-> <<
      [cond |-> <<>>, term |-> <<<<<<0>>, 2>>, <<<<1>>, 6>>>>, k |-> 1, rng |-> <<>>, mv |-> FALSE, nt |-> 2, irule |-> 209, recalc |-> FALSE],
      [cond |-> <<>>, term |-> <<<<<<0>>, 2>>, <<<<1>>, 2>>>>, k |-> 15, rng |-> <<>>, mv |-> FALSE, nt |-> 2, irule |-> 213, recalc |-> FALSE] >>],  \* RSHU1
    [op |-> 1413, labels |-> <<<<0>>, <<1>>>>, rules |-> <<
      [cond |-> <<<<<<0>>, 1093>>, <<<<1>>, 1093>>>>, term |-> <<<<<<0, 0>>, 7>>, <<<<1, 0>>, 7>>>>, k |-> 2, rng |-> <<>>, mv |-> FALSE, nt |-> 2, irule |-> 135, recalc |-> FALSE],
      [cond |-> <<>>, term |-> <<<<<<0>>, 2>>, <<<<1>>, 2>>>>, k |-> 10, rng |-> <<>>, mv |-> FALSE, nt |-> 2, irule |-> 137, recalc |-> FALSE],
      [cond |-> <<<<<<1>>, 1093>>>>, term |-> <<<<<<0>>, 2>>, <<<<1, 0>>, 7>>>>, k |-> 1, rng |-> <<>>, mv |-> FALSE, nt |-> 2, irule |-> 139, recalc |-> FALSE] >>],  \* BANDI1
    [op |-> 1414, labels |-> <<<<0>>, <<1>>>>, rules |-> <<
      [cond |-> <<<<<<0>>, 1094>>, <<<<1>>, 1094>>>>, term |-> <<<<<<0, 0>>, 7>>, <<<<1, 0>>, 7>>>>, k |-> 2, rng |-> <<>>, mv |-> FALSE, nt |-> 2, irule |-> 136, recalc |-> FALSE],
      [cond |-> <<>>, term |-> <<<<<<0>>, 2>>, <<<<1>>, 2>>>>, k |-> 10, rng |-> <<>>, mv |-> FALSE, nt |-> 2, irule |-> 138, recalc |-> FALSE],
      [cond |-> <<<<<<1>>, 1094>>>>, term |-> <<<<<<0>>, 2>>, <<<<1, 0>>, 7>>>>, k |-> 1, rng |-> <<>>, mv |-> FALSE, nt |-> 2, irule |-> 140, recalc |-> FALSE] >>],  \* BANDU1
    [op |-> 1429, labels |-> <<<<0>>>>, rules |-> <<
      [cond |-> <<>>, term |-> <<<<<<0>>, 2>>>>, k |-> 1, rng |-> <<>>, mv |-> FALSE, nt |-> 2, irule |-> 153, recalc |-> FALSE] >>],  \* BCOMI1
    [op |-> 1430, labels |-> <<<<0>>>>, rules |-> <<
      [cond |-> <<>>, term |-> <<<<<<0>>, 2>>>>, k |-> 1, rng |-> <<>>, mv |-> FALSE, nt |-> 2, irule |-> 154, recalc |-> FALSE] >>],  \* BCOMU1
    [op |-> 1445, labels |-> <<<<0>>, <<1>>>>, rules |-> <<
      [cond |-> <<<<<<0>>, 1093>>, <<<<1>>, 1093>>>>, term |-> <<<<<<0, 0>>, 7>>, <<<<1, 0>>, 7>>>>, k |-> 2, rng |-> <<>>, mv |-> FALSE, nt |-> 2, irule |-> 141, recalc |-> FALSE],
      [cond |-> <<>>, term |-> <<<<<<0>>, 2>>, <<<<1>>, 2>>>>, k |-> 10, rng |-> <<>>, mv |-> FALSE, nt |-> 2, irule |-> 143, recalc |-> FALSE],
      [cond |-> <<<<<<1>>, 1093>>>>, term |-> <<<<<<0>>, 2>>, <<<<1, 0>>, 7>>>>, k |-> 1, rng |-> <<>>, mv |-> FALSE, nt |-> 2, irule |-> 145, recalc |-> FALSE] >>],  \* BORI1
    [op |-> 1446, labels |-> <<<<0>>, <<1>>>>, rules |-> <<
      [cond |-> <<<<<<0>>, 1094>>, <<<<1>>, 1094>>>>, term |-> <<<<<<0, 0>>, 7>>, <<<<1, 0>>, 7>>>>, k |-> 2, rng |-> <<>>, mv |-> FALSE, nt |-> 2, irule |-> 142, recalc |-> FALSE],
      [cond |-> <<>>, term |-> <<<<<<0>>, 2>>, <<<<1>>, 2>>>>, k |-> 10, rng |-> <<>>, mv |-> FALSE, nt |-> 2, irule |-> 144, recalc |-> FALSE],
      [cond |-> <<<<<<1>>, 1094>>>>, term |-> <<<<<<0>>, 2>>, <<<<1, 0>>, 7>>>>, k |-> 1, rng |-> <<>>, mv |-> FALSE, nt |-> 2, irule |-> 146, recalc |-> FALSE] >>],  \* BORU1
    [op |-> 1461, labels |-> <<<<0>>, <<1>>>>, rules |-> <<
      [cond |-> <<<<<<0>>, 1093>>, <<<<1>>, 1093>>>>, term |-> <<<<<<0, 0>>, 7>>, <<<<1, 0>>, 7>>>>, k |-> 2, rng |-> <<>>, mv |-> FALSE, nt |-> 2, irule |-> 147, recalc |-> FALSE],
      [cond |-> <<>>, term |-> <<<<<<0>>, 2>>, <<<<1>>, 2>>>>, k |-> 10, rng |-> <<>>, mv |-> FALSE, nt |-> 2, irule |-> 149, recalc |-> FALSE],
      [cond |-> <<<<<<1>>, 1093>>>>, term |-> <<<<<<0>>, 2>>, <<<<1, 0>>, 7>>>>, k |-> 1, rng |-> <<>>, mv |-> FALSE, nt |-> 2, irule |-> 151, recalc |-> FALSE] >>],  \* BXORI1
    [op |-> 1462, labels |-> <<<<0>>, <<1>>>>, rules |-> <<
      [cond |-> <<<<<<0>>, 1094>>, <<<<1>>, 1094>>>>, term |-> <<<<<<0, 0>>, 7>>, <<<<1, 0>>, 7>>>>, k |-> 2, rng |-> <<>>, mv |-> FALSE, nt |-> 2, irule |-> 148, recalc |-> FALSE],
      [cond |-> <<>>, term |-> <<<<<<0>>, 2>>, <<<<1>>, 2>>>>, k |-> 10, rng |-> <<>>, mv |-> FALSE, nt |-> 2, irule |-> 150, recalc |-> FALSE],
      [cond |-> <<<<<<1>>, 1094>>>>, term |-> <<<<<<0>>, 2>>, <<<<1, 0>>, 7>>>>, k |-> 1, rng |-> <<>>, mv |-> FALSE, nt |-> 2, irule |-> 152, recalc |-> FALSE] >>],  \* BXORU1
    [op |-> 1477, labels |-> <<<<0>>, <<1>>>>, rules |-> <<
      [cond |-> <<>>, term |-> <<<<<<0>>, 2>>, <<<<1>>, 2>>>>, k |-> 3, rng |-> <<>>, mv |-> FALSE, nt |-> 2, irule |-> 119, recalc |-> FALSE] >>],  \* DIVI1
    [op |-> 1478, labels |-> <<<<0>>, <<1>>>>, rules |-> <<
      [cond |-> <<>>, term |-> <<<<<<0>>, 2>>, <<<<1>>, 2>>>>, k |-> 3, rng |-> <<>>, mv |-> FALSE, nt |-> 2, irule |-> 120, recalc |-> FALSE] >>],  \* DIVU1
    [op |-> 1493, labels |-> <<<<0>>, <<1>>>>, rules |-> <<
      [cond |-> <<>>, term |-> <<<<<<0>>, 2>>, <<<<1>>, 2>>>>, k |-> 3, rng |-> <<>>, mv |-> FALSE, nt |-> 2, irule |-> 115, recalc |-> FALSE] >>],  \* MULI1
    [op |-> 1494, labels |-> <<<<0>>, <<1>>>>, rules |-> <<
      [cond |-> <<>>, term |-> <<<<<<0>>, 2>>, <<<<1>>, 2>>>>, k |-> 3, rng |-> <<>>, mv |-> FALSE, nt |-> 2, irule |-> 116, recalc |-> FALSE] >>],  \* MULU1
    [op |-> 1509, labels |-> <<<<0>>, <<1>>>>, rules |-> <<
      [cond |-> <<>>, term |-> <<<<<<0>>, 2>>, <<<<1>>, 2>>>>, k |-> 5, rng |-> <<>>, mv |-> FALSE, nt |-> 1, irule |-> 31, recalc |-> FALSE],
      [cond |-> <<<<<<1>>, 1093>>>>, term |-> <<<<<<0>>, 2>>, <<<<1, 0>>, 7>>>>, k |-> 3, rng |-> <<>>, mv |-> FALSE, nt |-> 1, irule |-> 33, recalc |-> FALSE] >>],  \* EQI1
    [op |-> 1510, labels |-> <<<<0>>, <<1>>>>, rules |-> <<
      [cond |-> <<>>, term |-> <<<<<<0>>, 2>>, <<<<1>>, 2>>>>, k |-> 5, rng |-> <<>>, mv |-> FALSE, nt |-> 1, irule |-> 32, recalc |-> FALSE],
      [cond |-> <<<<<<1>>, 1094>>>>, term |-> <<<<<<0>>, 2>>, <<<<1, 0>>, 7>>>>, k |-> 3, rng |-> <<>>, mv |-> FALSE, nt |-> 1, irule |-> 34, recalc |-> FALSE] >>],  \* EQU1
    [op |-> 1525, labels |-> <<<<0>>, <<1>>>>, rules |-> <<
      [cond |-> <<>>, term |-> <<<<<<0>>, 2>>, <<<<1>>, 2>>>>, k |-> 5, rng |-> <<>>, mv |-> FALSE, nt |-> 1, irule |-> 51, recalc |-> FALSE],
      [cond |-> <<<<<<1>>, 1093>>>>, term |-> <<<<<<0>>, 2>>, <<<<1, 0>>, 7>>>>, k |-> 3, rng |-> <<>>, mv |-> FALSE, nt |-> 1, irule |-> 52, recalc |-> FALSE] >>],  \* GEI1
    [op |-> 1526, labels |-> <<<<0>>, <<1>>>>, rules |-> <<
      [cond |-> <<>>, term |-> <<<<<<0>>, 2>>, <<<<1>>, 2>>>>, k |-> 5, rng |-> <<>>, mv |-> FALSE, nt |-> 1, irule |-> 53, recalc |-> FALSE],
      [cond |-> <<<<<<1>>, 1094>>>>, term |-> <<<<<<0>>, 2>>, <<<<1, 0>>, 7>>>>, k |-> 3, rng |-> <<>>, mv |-> FALSE, nt |-> 1, irule |-> 54, recalc |-> FALSE] >>],  \* GEU1
    [op |-> 1541, labels |-> <<<<0>>, <<1>>>>, rules |-> <<
      [cond |-> <<>>, term |-> <<<<<<0>>, 2>>, <<<<1>>, 2>>>>, k |-> 5, rng |-> <<>>, mv |-> FALSE, nt |-> 1, irule |-> 47, recalc |-> FALSE],
      [cond |-> <<<<<<1>>, 1093>>>>, term |-> <<<<<<0>>, 2>>, <<<<1, 0>>, 7>>>>, k |-> 3, rng |-> <<>>, mv |-> FALSE, nt |-> 1, irule |-> 48, recalc |-> FALSE] >>],  \* GTI1
    [op |-> 1542, labels |-> <<<<0>>, <<1>>>>, rules |-> <<
      [cond |-> <<>>, term |-> <<<<<<0>>, 2>>, <<<<1>>, 2>>>>, k |-> 5, rng |-> <<>>, mv |-> FALSE, nt |-> 1, irule |-> 49, recalc |-> FALSE],
      [cond |-> <<<<<<1>>, 1094>>>>, term |-> <<<<<<0>>, 2>>, <<<<1, 0>>, 7>>>>, k |-> 3, rng |-> <<>>, mv |-> FALSE, nt |-> 1, irule |-> 50, recalc |-> FALSE] >>],  \* GTU1
    [op |-> 1557, labels |-> <<<<0>>, <<1>>>>, rules |-> <<
      [cond |-> <<>>, term |-> <<<<<<0>>, 2>>, <<<<1>>, 2>>>>, k |-> 5, rng |-> <<>>, mv |-> FALSE, nt |-> 1, irule |-> 43, recalc |-> FALSE],
      [cond |-> <<<<<<1>>, 1093>>>>, term |-> <<<<<<0>>, 2>>, <<<<1, 0>>, 7>>>>, k |-> 3, rng |-> <<>>, mv |-> FALSE, nt |-> 1, irule |-> 44, recalc |-> FALSE] >>],  \* LEI1
    [op |-> 1558, labels |-> <<<<0>>, <<1>>>>, rules |-> <<
      [cond |-> <<>>, term |-> <<<<<<0>>, 2>>, <<<<1>>, 2>>>>, k |-> 5, rng |-> <<>>, mv |-> FALSE, nt |-> 1, irule |-> 45, recalc |-> FALSE],
      [cond |-> <<<<<<1>>, 1094>>>>, term |-> <<<<<<0>>, 2>>, <<<<1, 0>>, 7>>>>, k |-> 3, rng |-> <<>>, mv |-> FALSE, nt |-> 1, irule |-> 46, recalc |-> FALSE] >>],  \* LEU1
    [op |-> 1573, labels |-> <<<<0>>, <<1>>>>, rules |-> <<
      [cond |-> <<>>, term |-> <<<<<<0>>, 2>>, <<<<1>>, 2>>>>, k |-> 5, rng |-> <<>>, mv |-> FALSE, nt |-> 1, irule |-> 39, recalc |-> FALSE],
      [cond |-> <<<<<<1>>, 1093>>>>, term |-> <<<<<<0>>, 2>>, <<<<1, 0>>, 7>>>>, k |-> 3, rng |-> <<>>, mv |-> FALSE, nt |-> 1, irule |-> 40, recalc |-> FALSE] >>],  \* LTI1
    [op |-> 1574, labels |-> <<<<0>>, <<1>>>>, rules |-> <<
      [cond |-> <<>>, term |-> <<<<<<0>>, 2>>, <<<<1>>, 2>>>>, k |-> 5, rng |-> <<>>, mv |-> FALSE, nt |-> 1, irule |-> 41, recalc |-> FALSE],
      [cond |-> <<<<<<1>>, 1094>>>>, term |-> <<<<<<0>>, 2>>, <<<<1, 0>>, 7>>>>, k |-> 3, rng |-> <<>>, mv |-> FALSE, nt |-> 1, irule |-> 42, recalc |-> FALSE] >>],  \* LTU1
    [op |-> 1589, labels |-> <<<<0>>, <<1>>>>, rules |-> <<
      [cond |-> <<>>, term |-> <<<<<<0>>, 2>>, <<<<1>>, 2>>>>, k |-> 5, rng |-> <<>>, mv |-> FALSE, nt |-> 1, irule |-> 35, recalc |-> FALSE],
      [cond |-> <<<<<<1>>, 1093>>>>, term |-> <<<<<<0>>, 2>>, <<<<1, 0>>, 7>>>>, k |-> 3, rng |-> <<>>, mv |-> FALSE, nt |-> 1, irule |-> 37, recalc |-> FALSE] >>],  \* NEI1
    [op |-> 1590, labels |-> <<<<0>>, <<1>>>>, rules |-> <<
      [cond |-> <<>>, term |-> <<<<<<0>>, 2>>, <<<<1>>, 2>>>>, k |-> 5, rng |-> <<>>, mv |-> FALSE, nt |-> 1, irule |-> 36, recalc |-> FALSE],
      [cond |-> <<<<<<1>>, 1094>>>>, term |-> <<<<<<0>>, 2>>, <<<<1, 0>>, 7>>>>, k |-> 3, rng |-> <<>>, mv |-> FALSE, nt |-> 1, irule |-> 38, recalc |-> FALSE] >>],  \* NEU1
    [op |-> 2069, labels |-> <<>>, rules |-> <<
      [cond |-> <<>>, term |-> <<>>, k |-> 0, rng |-> <<>>, mv |-> FALSE, nt |-> 3, irule |-> 1, recalc |-> FALSE] >>],  \* CNSTI2
    [op |-> 2070, labels |-> <<>>, rules |-> <<
      [cond |-> <<>>, term |-> <<>>, k |-> 0, rng |-> <<>>, mv |-> FALSE, nt |-> 3, irule |-> 2, recalc |-> FALSE] >>],  \* CNSTU2
    [op |-> 2071, labels |-> <<>>, rules |-> <<
      [cond |-> <<>>, term |-> <<>>, k |-> 0, rng |-> <<>>, mv |-> FALSE, nt |-> 3, irule |-> 3, recalc |-> FALSE] >>],  \* CNSTP2
    [op |-> 2085, labels |-> <<<<0>>>>, rules |-> <<
      [cond |-> <<>>, term |-> <<<<<<0>>, 2>>>>, k |-> 1, rng |-> <<>>, mv |-> FALSE, nt |-> 1, irule |-> 117, recalc |-> FALSE] >>],  \* ARGI2
    [op |-> 2086, labels |-> <<<<0>>>>, rules |-> <<
      [cond |-> <<>>, term |-> <<<<<<0>>, 2>>>>, k |-> 1, rng |-> <<>>, mv |-> FALSE, nt |-> 1, irule |-> 118, recalc |-> FALSE] >>],  \* ARGU2
    [op |-> 2087, labels |-> <<<<0>>>>, rules |-> <<
      [cond |-> <<>>, term |-> <<<<<<0>>, 2>>>>, k |-> 1, rng |-> <<>>, mv |-> FALSE, nt |-> 1, irule |-> 119, recalc |-> FALSE] >>],  \* ARGP2
    [op |-> 2101, labels |-> <<<<0>>, <<1>>>>, rules |-> <<
      [cond |-> <<<<<<0>>, 711>>>>, term |-> <<<<<<1>>, 2>>>>, k |-> 0, rng |-> <<>>, mv |-> FALSE, nt |-> 1, irule |-> 3, recalc |-> FALSE],
      [cond |-> <<>>, term |-> <<<<<<0>>, 8>>, <<<<1>>, 2>>>>, k |-> 1, rng |-> <<>>, mv |-> FALSE, nt |-> 1, irule |-> 11, recalc |-> FALSE],
      [cond |-> <<>>, term |-> <<<<<<0>>, 7>>, <<<<1>>, 2>>>>, k |-> 2, rng |-> <<>>, mv |-> FALSE, nt |-> 1, irule |-> 16, recalc |-> FALSE] >>],  \* ASGNI2
    [op |-> 2102, labels |-> <<<<0>>, <<1>>>>, rules |-> <<
      [cond |-> <<<<<<0>>, 711>>>>, term |-> <<<<<<1>>, 2>>>>, k |-> 0, rng |-> <<>>, mv |-> FALSE, nt |-> 1, irule |-> 4, recalc |-> FALSE],
      [cond |-> <<>>, term |-> <<<<<<0>>, 8>>, <<<<1>>, 2>>>>, k |-> 1, rng |-> <<>>, mv |-> FALSE, nt |-> 1, irule |-> 12, recalc |-> FALSE],
      [cond |-> <<>>, term |-> <<<<<<0>>, 7>>, <<<<1>>, 2>>>>, k |-> 2, rng |-> <<>>, mv |-> FALSE, nt |-> 1, irule |-> 17, recalc |-> FALSE] >>],  \* ASGNU2
    [op |-> 2103, labels |-> <<<<0>>, <<1>>>>, rules |-> <<
      [cond |-> <<<<<<0>>, 711>>>>, term |-> <<<<<<1>>, 2>>>>, k |-> 0, rng |-> <<>>, mv |-> FALSE, nt |-> 1, irule |-> 5, recalc |-> FALSE],
      [cond |-> <<>>, term |-> <<<<<<0>>, 8>>, <<<<1>>, 2>>>>, k |-> 1, rng |-> <<>>, mv |-> FALSE, nt |-> 1, irule |-> 13, recalc |-> FALSE],
      [cond |-> <<>>, term |-> <<<<<<0>>, 7>>, <<<<1>>, 2>>>>, k |-> 2, rng |-> <<>>, mv |-> FALSE, nt |-> 1, irule |-> 18, recalc |-> FALSE] >>],  \* ASGNP2
    [op |-> 2117, labels |-> <<<<0>>>>, rules |-> <<
      [cond |-> <<<<<<0>>, 711>>>>, term |-> <<>>, k |-> 0, rng |-> <<>>, mv |-> FALSE, nt |-> 2, irule |-> 3, recalc |-> TRUE],
      [cond |-> <<>>, term |-> <<<<<<0>>, 8>>>>, k |-> 1, rng |-> <<>>, mv |-> FALSE, nt |-> 2, irule |-> 32, recalc |-> FALSE],
      [cond |-> <<>>, term |-> <<<<<<0>>, 7>>>>, k |-> 2, rng |-> <<>>, mv |-> FALSE, nt |-> 2, irule |-> 37, recalc |-> FALSE] >>],  \* INDIRI2
    [op |-> 2118, labels |-> <<<<0>>>>, rules |-> <<
      [cond |-> <<<<<<0>>, 711>>>>, term |-> <<>>, k |-> 0, rng |-> <<>>, mv |-> FALSE, nt |-> 2, irule |-> 4, recalc |-> TRUE],
      [cond |-> <<>>, term |-> <<<<<<0>>, 8>>>>, k |-> 1, rng |-> <<>>, mv |-> FALSE, nt |-> 2, irule |-> 33, recalc |-> FALSE],
      [cond |-> <<>>, term |-> <<<<<<0>>, 7>>>>, k |-> 2, rng |-> <<>>, mv |-> FALSE, nt |-> 2, irule |-> 38, recalc |-> FALSE] >>],  \* INDIRU2
    [op |-> 2119, labels |-> <<<<0>>>>, rules |-> <<
      [cond |-> <<<<<<0>>, 711>>>>, term |-> <<>>, k |-> 0, rng |-> <<>>, mv |-> FALSE, nt |-> 2, irule |-> 5, recalc |-> TRUE],
      [cond |-> <<>>, term |-> <<<<<<0>>, 8>>>>, k |-> 1, rng |-> <<>>, mv |-> FALSE, nt |-> 2, irule |-> 34, recalc |-> FALSE],
      [cond |-> <<>>, term |-> <<<<<<0>>, 7>>>>, k |-> 2, rng |-> <<>>, mv |-> FALSE, nt |-> 2, irule |-> 39, recalc |-> FALSE] >>],  \* INDIRP2
    [op |-> 2181, labels |-> <<<<0>>>>, rules |-> <<
      [cond |-> <<>>, term |-> <<<<<<0>>, 2>>>>, k |-> 0, rng |-> <<>>, mv |-> FALSE, nt |-> 2, irule |-> 219, recalc |-> FALSE] >>],  \* CVII2
    [op |-> 2182, labels |-> <<<<0>>>>, rules |-> <<
      [cond |-> <<>>, term |-> <<<<<<0>>, 2>>>>, k |-> 0, rng |-> <<>>, mv |-> FALSE, nt |-> 2, irule |-> 220, recalc |-> FALSE] >>],  \* CVIU2
    [op |-> 2198, labels |-> <<<<0>>>>, rules |-> <<
      [cond |-> <<>>, term |-> <<<<<<0>>, 2>>>>, k |-> 0, rng |-> <<>>, mv |-> FALSE, nt |-> 2, irule |-> 225, recalc |-> FALSE] >>],  \* CVPU2
    [op |-> 2229, labels |-> <<<<0>>>>, rules |-> <<
      [cond |-> <<>>, term |-> <<<<<<0>>, 2>>>>, k |-> 0, rng |-> <<>>, mv |-> FALSE, nt |-> 2, irule |-> 221, recalc |-> FALSE] >>],  \* CVUI2
    [op |-> 2230, labels |-> <<<<0>>>>, rules |-> <<
      [cond |-> <<>>, term |-> <<<<<<0>>, 2>>>>, k |-> 0, rng |-> <<>>, mv |-> FALSE, nt |-> 2, irule |-> 222, recalc |-> FALSE] >>],  \* CVUU2
    [op |-> 2231, labels |-> <<<<0>>>>, rules |-> <<
      [cond |-> <<>>, term |-> <<<<<<0>>, 2>>>>, k |-> 0, rng |-> <<>>, mv |-> FALSE, nt |-> 2, irule |-> 226, recalc |-> FALSE] >>],  \* CVUP2
    [op |-> 2245, labels |-> <<<<0>>>>, rules |-> <<
      [cond |-> <<>>, term |-> <<<<<<0>>, 2>>>>, k |-> 1, rng |-> <<>>, mv |-> FALSE, nt |-> 2, irule |-> 110, recalc |-> FALSE] >>],  \* NEGI2
    [op |-> 2261, labels |-> <<<<0>>>>, rules |-> <<
      [cond |-> <<>>, term |-> <<<<<<0>>, 7>>>>, k |-> 5, rng |-> <<>>, mv |-> FALSE, nt |-> 2, irule |-> 235, recalc |-> FALSE] >>],  \* CALLI2
    [op |-> 2262, labels |-> <<<<0>>>>, rules |-> <<
      [cond |-> <<>>, term |-> <<<<<<0>>, 7>>>>, k |-> 5, rng |-> <<>>, mv |-> FALSE, nt |-> 2, irule |-> 236, recalc |-> FALSE] >>],  \* CALLU2
    [op |-> 2263, labels |-> <<<<0>>>>, rules |-> <<
      [cond |-> <<>>, term |-> <<<<<<0>>, 7>>>>, k |-> 5, rng |-> <<>>, mv |-> FALSE, nt |-> 2, irule |-> 237, recalc |-> FALSE] >>],  \* CALLP2
    [op |-> 2277, labels |-> <<<<0>>>>, rules |-> <<
      [cond |-> <<>>, term |-> <<<<<<0>>, 2>>>>, k |-> 0, rng |-> <<>>, mv |-> TRUE, nt |-> 2, irule |-> 243, recalc |-> FALSE] >>],  \* LOADI2
    [op |-> 2278, labels |-> <<<<0>>>>, rules |-> <<
      [cond |-> <<>>, term |-> <<<<<<0>>, 2>>>>, k |-> 0, rng |-> <<>>, mv |-> TRUE, nt |-> 2, irule |-> 244, recalc |-> FALSE] >>],  \* LOADU2
    [op |-> 2279, labels |-> <<<<0>>>>, rules |-> <<
      [cond |-> <<>>, term |-> <<<<<<0>>, 2>>>>, k |-> 0, rng |-> <<>>, mv |-> TRUE, nt |-> 2, irule |-> 245, recalc |-> FALSE] >>],  \* LOADP2
    [op |-> 2293, labels |-> <<<<0>>>>, rules |-> <<
      [cond |-> <<>>, term |-> <<<<<<0>>, 2>>>>, k |-> 0, rng |-> <<>>, mv |-> FALSE, nt |-> 1, irule |-> 126, recalc |-> FALSE] >>],  \* RETI2
    [op |-> 2294, labels |-> <<<<0>>>>, rules |-> <<
      [cond |-> <<>>, term |-> <<<<<<0>>, 2>>>>, k |-> 0, rng |-> <<>>, mv |-> FALSE, nt |-> 1, irule |-> 127, recalc |-> FALSE] >>],  \* RETU2
    [op |-> 2295, labels |-> <<<<0>>>>, rules |-> <<
      [cond |-> <<>>, term |-> <<<<<<0>>, 2>>>>, k |-> 0, rng |-> <<>>, mv |-> FALSE, nt |-> 1, irule |-> 128, recalc |-> FALSE] >>],  \* RETP2
    [op |-> 2311, labels |-> <<>>, rules |-> <<
      [cond |-> <<>>, term |-> <<>>, k |-> 0, rng |-> <<>>, mv |-> FALSE, nt |-> 7, irule |-> 1, recalc |-> FALSE],
      [cond |-> <<>>, term |-> <<>>, k |-> 1, rng |-> <<>>, mv |-> FALSE, nt |-> 2, irule |-> 27, recalc |-> FALSE] >>],  \* ADDRGP2
    [op |-> 2327, labels |-> <<>>, rules |-> <<
      [cond |-> <<>>, term |-> <<>>, k |-> 0, rng |-> <<>>, mv |-> FALSE, nt |-> 8, irule |-> 1, recalc |-> FALSE],
      [cond |-> <<>>, term |-> <<>>, k |-> 1, rng |-> <<>>, mv |-> FALSE, nt |-> 2, irule |-> 28, recalc |-> FALSE] >>],  \* ADDRFP2
    [op |-> 2343, labels |-> <<>>, rules |-> <<
      [cond |-> <<>>, term |-> <<>>, k |-> 0, rng |-> <<>>, mv |-> FALSE, nt |-> 8, irule |-> 2, recalc |-> FALSE],
      [cond |-> <<>>, term |-> <<>>, k |-> 1, rng |-> <<>>, mv |-> FALSE, nt |-> 2, irule |-> 29, recalc |-> FALSE] >>],  \* ADDRLP2
    [op |-> 2357, labels |-> <<<<0>>, <<1>>>>, rules |-> <<
      [cond |-> <<<<<<0>>, 2117>>, <<<<0, 0>>, 711>>, <<<<1>>, 2117>>, <<<<1, 0>>, 711>>>>, term |-> <<>>, k |-> 3, rng |-> <<>>, mv |-> FALSE, nt |-> 2, irule |-> 9, recalc |-> FALSE],
      [cond |-> <<<<<<0>>, 2117>>, <<<<0, 0>>, 711>>>>, term |-> <<<<<<1>>, 3>>>>, k |-> 2, rng |-> <<>>, mv |-> FALSE, nt |-> 2, irule |-> 12, recalc |-> FALSE],
      [cond |-> <<<<<<0>>, 2117>>>>, term |-> <<<<<<0, 0>>, 8>>, <<<<1>>, 3>>>>, k |-> 3, rng |-> <<>>, mv |-> FALSE, nt |-> 2, irule |-> 74, recalc |-> FALSE],
      [cond |-> <<<<<<0>>, 2117>>, <<<<1>>, 2117>>>>, term |-> <<<<<<0, 0>>, 8>>, <<<<1, 0>>, 8>>>>, k |-> 4, rng |-> <<>>, mv |-> FALSE, nt |-> 2, irule |-> 77, recalc |-> FALSE],
      [cond |-> <<<<<<0>>, 2117>>>>, term |-> <<<<<<0, 0>>, 7>>, <<<<1>>, 3>>>>, k |-> 3, rng |-> <<>>, mv |-> FALSE, nt |-> 2, irule |-> 80, recalc |-> FALSE],
      [cond |-> <<<<<<0>>, 2117>>, <<<<1>>, 2117>>>>, term |-> <<<<<<0, 0>>, 7>>, <<<<1, 0>>, 7>>>>, k |-> 4, rng |-> <<>>, mv |-> FALSE, nt |-> 2, irule |-> 82, recalc |-> FALSE],
      [cond |-> <<<<<<1>>, 2117>>>>, term |-> <<<<<<0>>, 2>>, <<<<1, 0>>, 7>>>>, k |-> 3, rng |-> <<>>, mv |-> FALSE, nt |-> 2, irule |-> 84, recalc |-> FALSE],
      [cond |-> <<<<<<1>>, 2117>>>>, term |-> <<<<<<0>>, 2>>, <<<<1, 0>>, 8>>>>, k |-> 3, rng |-> <<>>, mv |-> FALSE, nt |-> 2, irule |-> 86, recalc |-> FALSE],
      [cond |-> <<>>, term |-> <<<<<<0>>, 2>>, <<<<1>>, 3>>>>, k |-> 3, rng |-> <<>>, mv |-> FALSE, nt |-> 2, irule |-> 89, recalc |-> FALSE],
      [cond |-> <<>>, term |-> <<<<<<0>>, 2>>, <<<<1>>, 2>>>>, k |-> 8, rng |-> <<>>, mv |-> FALSE, nt |-> 2, irule |-> 91, recalc |-> FALSE] >>],  \* ADDI2
    [op |-> 2358, labels |-> <<<<0>>, <<1>>>>, rules |-> <<
      [cond |-> <<<<<<0>>, 2118>>, <<<<0, 0>>, 711>>, <<<<1>>, 2118>>, <<<<1, 0>>, 711>>>>, term |-> <<>>, k |-> 3, rng |-> <<>>, mv |-> FALSE, nt |-> 2, irule |-> 10, recalc |-> FALSE],
      [cond |-> <<<<<<0>>, 2118>>, <<<<0, 0>>, 711>>>>, term |-> <<<<<<1>>, 3>>>>, k |-> 2, rng |-> <<>>, mv |-> FALSE, nt |-> 2, irule |-> 13, recalc |-> FALSE],
      [cond |-> <<<<<<0>>, 2118>>>>, term |-> <<<<<<0, 0>>, 8>>, <<<<1>>, 3>>>>, k |-> 3, rng |-> <<>>, mv |-> FALSE, nt |-> 2, irule |-> 75, recalc |-> FALSE],
      [cond |-> <<<<<<0>>, 2118>>, <<<<1>>, 2118>>>>, term |-> <<<<<<0, 0>>, 8>>, <<<<1, 0>>, 8>>>>, k |-> 4, rng |-> <<>>, mv |-> FALSE, nt |-> 2, irule |-> 78, recalc |-> FALSE],
      [cond |-> <<<<<<0>>, 2118>>>>, term |-> <<<<<<0, 0>>, 7>>, <<<<1>>, 3>>>>, k |-> 3, rng |-> <<>>, mv |-> FALSE, nt |-> 2, irule |-> 81, recalc |-> FALSE],
      [cond |-> <<<<<<0>>, 2118>>, <<<<1>>, 2118>>>>, term |-> <<<<<<0, 0>>, 7>>, <<<<1, 0>>, 7>>>>, k |-> 4, rng |-> <<>>, mv |-> FALSE, nt |-> 2, irule |-> 83, recalc |-> FALSE],
      [cond |-> <<<<<<1>>, 2118>>>>, term |-> <<<<<<0>>, 2>>, <<<<1, 0>>, 7>>>>, k |-> 3, rng |-> <<>>, mv |-> FALSE, nt |-> 2, irule |-> 85, recalc |-> FALSE],
      [cond |-> <<<<<<1>>, 2118>>>>, term |-> <<<<<<0>>, 2>>, <<<<1, 0>>, 8>>>>, k |-> 3, rng |-> <<>>, mv |-> FALSE, nt |-> 2, irule |-> 87, recalc |-> FALSE],
      [cond |-> <<>>, term |-> <<<<<<0>>, 2>>, <<<<1>>, 3>>>>, k |-> 3, rng |-> <<>>, mv |-> FALSE, nt |-> 2, irule |-> 90, recalc |-> FALSE],
      [cond |-> <<>>, term |-> <<<<<<0>>, 2>>, <<<<1>>, 2>>>>, k |-> 8, rng |-> <<>>, mv |-> FALSE, nt |-> 2, irule |-> 92, recalc |-> FALSE] >>],  \* ADDU2
    [op |-> 2359, labels |-> <<<<0>>, <<1>>>>, rules |-> <<
      [cond |-> <<<<<<0>>, 2119>>, <<<<0, 0>>, 711>>, <<<<1>>, 2117>>, <<<<1, 0>>, 711>>>>, term |-> <<>>, k |-> 3, rng |-> <<>>, mv |-> FALSE, nt |-> 2, irule |-> 11, recalc |-> FALSE],
      [cond |-> <<<<<<0>>, 2119>>>>, term |-> <<<<<<0, 0>>, 8>>, <<<<1>>, 3>>>>, k |-> 3, rng |-> <<>>, mv |-> FALSE, nt |-> 2, irule |-> 76, recalc |-> FALSE],
      [cond |-> <<<<<<0>>, 2119>>, <<<<1>>, 2117>>>>, term |-> <<<<<<0, 0>>, 8>>, <<<<1, 0>>, 8>>>>, k |-> 4, rng |-> <<>>, mv |-> FALSE, nt |-> 2, irule |-> 79, recalc |-> FALSE],
      [cond |-> <<<<<<1>>, 2119>>>>, term |-> <<<<<<0>>, 2>>, <<<<1, 0>>, 8>>>>, k |-> 3, rng |-> <<>>, mv |-> FALSE, nt |-> 2, irule |-> 88, recalc |-> FALSE],
      [cond |-> <<>>, term |-> <<<<<<0>>, 2>>, <<<<1>>, 2>>>>, k |-> 8, rng |-> <<>>, mv |-> FALSE, nt |-> 2, irule |-> 93, recalc |-> FALSE],
      [cond |-> <<>>, term |-> <<<<<<0>>, 7>>, <<<<1>>, 2>>>>, k |-> 1, rng |-> <<>>, mv |-> FALSE, nt |-> 7, irule |-> 4, recalc |-> FALSE] >>],  \* ADDP2
    [op |-> 2373, labels |-> <<<<0>>, <<1>>>>, rules |-> <<
      [cond |-> <<<<<<0>>, 2117>>, <<<<0, 0>>, 711>>, <<<<1>>, 2117>>, <<<<1, 0>>, 711>>>>, term |-> <<>>, k |-> 3, rng |-> <<>>, mv |-> FALSE, nt |-> 2, irule |-> 16, recalc |-> FALSE],
      [cond |-> <<<<<<0>>, 2117>>>>, term |-> <<<<<<0, 0>>, 8>>, <<<<1>>, 3>>>>, k |-> 3, rng |-> <<>>, mv |-> FALSE, nt |-> 2, irule |-> 94, recalc |-> FALSE],
      [cond |-> <<<<<<0>>, 2117>>, <<<<1>>, 2117>>>>, term |-> <<<<<<0, 0>>, 8>>, <<<<1, 0>>, 8>>>>, k |-> 4, rng |-> <<>>, mv |-> FALSE, nt |-> 2, irule |-> 96, recalc |-> FALSE],
      [cond |-> <<<<<<0>>, 2117>>>>, term |-> <<<<<<0, 0>>, 7>>, <<<<1>>, 3>>>>, k |-> 3, rng |-> <<>>, mv |-> FALSE, nt |-> 2, irule |-> 98, recalc |-> FALSE],
      [cond |-> <<<<<<0>>, 2117>>, <<<<1>>, 2117>>>>, term |-> <<<<<<0, 0>>, 7>>, <<<<1, 0>>, 7>>>>, k |-> 4, rng |-> <<>>, mv |-> FALSE, nt |-> 2, irule |-> 100, recalc |-> FALSE],
      [cond |-> <<<<<<1>>, 2117>>>>, term |-> <<<<<<0>>, 2>>, <<<<1, 0>>, 7>>>>, k |-> 5, rng |-> <<>>, mv |-> FALSE, nt |-> 2, irule |-> 102, recalc |-> FALSE],
      [cond |-> <<<<<<1>>, 2117>>>>, term |-> <<<<<<0>>, 2>>, <<<<1, 0>>, 8>>>>, k |-> 5, rng |-> <<>>, mv |-> FALSE, nt |-> 2, irule |-> 104, recalc |-> FALSE],
      [cond |-> <<>>, term |-> <<<<<<0>>, 2>>, <<<<1>>, 3>>>>, k |-> 4, rng |-> <<>>, mv |-> FALSE, nt |-> 2, irule |-> 106, recalc |-> FALSE],
      [cond |-> <<>>, term |-> <<<<<<0>>, 2>>, <<<<1>>, 2>>>>, k |-> 8, rng |-> <<>>, mv |-> FALSE, nt |-> 2, irule |-> 108, recalc |-> FALSE] >>],  \* SUBI2
    [op |-> 2374, labels |-> <<<<0>>, <<1>>>>, rules |-> <<
      [cond |-> <<<<<<0>>, 2118>>, <<<<0, 0>>, 711>>, <<<<1>>, 2118>>, <<<<1, 0>>, 711>>>>, term |-> <<>>, k |-> 3, rng |-> <<>>, mv |-> FALSE, nt |-> 2, irule |-> 17, recalc |-> FALSE],
      [cond |-> <<<<<<0>>, 2118>>>>, term |-> <<<<<<0, 0>>, 8>>, <<<<1>>, 3>>>>, k |-> 3, rng |-> <<>>, mv |-> FALSE, nt |-> 2, irule |-> 95, recalc |-> FALSE],
      [cond |-> <<<<<<0>>, 2118>>, <<<<1>>, 2118>>>>, term |-> <<<<<<0, 0>>, 8>>, <<<<1, 0>>, 8>>>>, k |-> 4, rng |-> <<>>, mv |-> FALSE, nt |-> 2, irule |-> 97, recalc |-> FALSE],
      [cond |-> <<<<<<0>>, 2118>>>>, term |-> <<<<<<0, 0>>, 7>>, <<<<1>>, 3>>>>, k |-> 3, rng |-> <<>>, mv |-> FALSE, nt |-> 2, irule |-> 99, recalc |-> FALSE],
      [cond |-> <<<<<<0>>, 2118>>, <<<<1>>, 2118>>>>, term |-> <<<<<<0, 0>>, 7>>, <<<<1, 0>>, 7>>>>, k |-> 4, rng |-> <<>>, mv |-> FALSE, nt |-> 2, irule |-> 101, recalc |-> FALSE],
      [cond |-> <<<<<<1>>, 2118>>>>, term |-> <<<<<<0>>, 2>>, <<<<1, 0>>, 7>>>>, k |-> 5, rng |-> <<>>, mv |-> FALSE, nt |-> 2, irule |-> 103, recalc |-> FALSE],
      [cond |-> <<<<<<1>>, 2118>>>>, term |-> <<<<<<0>>, 2>>, <<<<1, 0>>, 8>>>>, k |-> 5, rng |-> <<>>, mv |-> FALSE, nt |-> 2, irule |-> 105, recalc |-> FALSE],
      [cond |-> <<>>, term |-> <<<<<<0>>, 2>>, <<<<1>>, 3>>>>, k |-> 4, rng |-> <<>>, mv |-> FALSE, nt |-> 2, irule |-> 107, recalc |-> FALSE],
      [cond |-> <<>>, term |-> <<<<<<0>>, 2>>, <<<<1>>, 2>>>>, k |-> 8, rng |-> <<>>, mv |-> FALSE, nt |-> 2, irule |-> 109, recalc |-> FALSE] >>],  \* SUBU2
    [op |-> 2389, labels |-> <<<<0>>, <<1>>>>, rules |-> <<
      [cond |-> <<>>, term |-> <<<<<<0>>, 2>>, <<<<1>>, 6>>>>, k |-> 1, rng |-> <<>>, mv |-> FALSE, nt |-> 2, irule |-> 199, recalc |-> FALSE],
      [cond |-> <<>>, term |-> <<<<<<0>>, 2>>, <<<<1>>, 2>>>>, k |-> 15, rng |-> <<>>, mv |-> FALSE, nt |-> 2, irule |-> 203, recalc |-> FALSE] >>],  \* LSHI2
    [op |-> 2390, labels |-> <<<<0>>, <<1>>>>, rules |-> <<
      [cond |-> <<>>, term |-> <<<<<<0>>, 2>>, <<<<1>>, 6>>>>, k |-> 1, rng |-> <<>>, mv |-> FALSE, nt |-> 2, irule |-> 200, recalc |-> FALSE],
      [cond |-> <<>>, term |-> <<<<<<0>>, 2>>, <<<<1>>, 2>>>>, k |-> 15, rng |-> <<>>, mv |-> FALSE, nt |-> 2, irule |-> 204, recalc |-> FALSE] >>],  \* LSHU2
    [op |-> 2405, labels |-> <<<<0>>, <<1>>>>, rules |-> <<
      [cond |-> <<>>, term |-> <<<<<<0>>, 2>>, <<<<1>>, 2>>>>, k |-> 3, rng |-> <<>>, mv |-> FALSE, nt |-> 2, irule |-> 129, recalc |-> FALSE],
      [cond |-> <<<<<<0>>, 2117>>, <<<<1>>, 2117>>>>, term |-> <<<<<<0, 0>>, 8>>, <<<<1, 0>>, 8>>>>, k |-> 4, rng |-> <<>>, mv |-> FALSE, nt |-> 2, irule |-> 131, recalc |-> FALSE],
      [cond |-> <<<<<<1>>, 2117>>>>, term |-> <<<<<<0>>, 2>>, <<<<1, 0>>, 8>>>>, k |-> 5, rng |-> <<>>, mv |-> FALSE, nt |-> 2, irule |-> 133, recalc |-> FALSE] >>],  \* MODI2
    [op |-> 2406, labels |-> <<<<0>>, <<1>>>>, rules |-> <<
      [cond |-> <<>>, term |-> <<<<<<0>>, 2>>, <<<<1>>, 2>>>>, k |-> 3, rng |-> <<>>, mv |-> FALSE, nt |-> 2, irule |-> 130, recalc |-> FALSE],
      [cond |-> <<<<<<0>>, 2118>>, <<<<1>>, 2118>>>>, term |-> <<<<<<0, 0>>, 8>>, <<<<1, 0>>, 8>>>>, k |-> 4, rng |-> <<>>, mv |-> FALSE, nt |-> 2, irule |-> 132, recalc |-> FALSE],
      [cond |-> <<<<<<1>>, 2118>>>>, term |-> <<<<<<0>>, 2>>, <<<<1, 0>>, 8>>>>, k |-> 5, rng |-> <<>>, mv |-> FALSE, nt |-> 2, irule |-> 134, recalc |-> FALSE] >>],  \* MODU2
    [op |-> 2421, labels |-> <<<<0>>, <<1>>>>, rules |-> <<
      [cond |-> <<>>, term |-> <<<<<<0>>, 2>>, <<<<1>>, 6>>>>, k |-> 1, rng |-> <<>>, mv |-> FALSE, nt |-> 2, irule |-> 202, recalc |-> FALSE],
      [cond |-> <<>>, term |-> <<<<<<0>>, 2>>, <<<<1>>, 2>>>>, k |-> 15, rng |-> <<>>, mv |-> FALSE, nt |-> 2, irule |-> 206, recalc |-> FALSE] >>],  \* RSHI2
    [op |-> 2422, labels |-> <<<<0>>, <<1>>>>, rules |-> <<
      [cond |-> <<>>, term |-> <<<<<<0>>, 2>>, <<<<1>>, 6>>>>, k |-> 1, rng |-> <<>>, mv |-> FALSE, nt |-> 2, irule |-> 201, recalc |-> FALSE],
      [cond |-> <<>>, term |-> <<<<<<0>>, 2>>, <<<<1>>, 2>>>>, k |-> 15, rng |-> <<>>, mv |-> FALSE, nt |-> 2, irule |-> 205, recalc |-> FALSE] >>],  \* RSHU2
    [op |-> 2437, labels |-> <<<<0>>, <<1>>>>, rules |-> <<
      [cond |-> <<<<<<0>>, 2117>>, <<<<0, 0>>, 711>>, <<<<1>>, 2117>>, <<<<1, 0>>, 711>>>>, term |-> <<>>, k |-> 3, rng |-> <<>>, mv |-> FALSE, nt |-> 2, irule |-> 20, recalc |-> FALSE],
      [cond |-> <<>>, term |-> <<<<<<0>>, 2>>, <<<<1>>, 2>>>>, k |-> 8, rng |-> <<>>, mv |-> FALSE, nt |-> 2, irule |-> 155, recalc |-> FALSE],
      [cond |-> <<<<<<0>>, 2117>>, <<<<1>>, 2117>>>>, term |-> <<<<<<0, 0>>, 8>>, <<<<1, 0>>, 8>>>>, k |-> 2, rng |-> <<>>, mv |-> FALSE, nt |-> 2, irule |-> 157, recalc |-> FALSE],
      [cond |-> <<<<<<1>>, 2117>>>>, term |-> <<<<<<0>>, 2>>, <<<<1, 0>>, 8>>>>, k |-> 3, rng |-> <<>>, mv |-> FALSE, nt |-> 2, irule |-> 159, recalc |-> FALSE],
      [cond |-> <<<<<<0>>, 2117>>, <<<<1>>, 2117>>>>, term |-> <<<<<<0, 0>>, 7>>, <<<<1, 0>>, 7>>>>, k |-> 4, rng |-> <<>>, mv |-> FALSE, nt |-> 2, irule |-> 161, recalc |-> FALSE],
      [cond |-> <<>>, term |-> <<<<<<0>>, 2>>, <<<<1>>, 3>>>>, k |-> 3, rng |-> <<>>, mv |-> FALSE, nt |-> 2, irule |-> 163, recalc |-> FALSE],
      [cond |-> <<<<<<0>>, 2117>>>>, term |-> <<<<<<0, 0>>, 8>>, <<<<1>>, 3>>>>, k |-> 4, rng |-> <<>>, mv |-> FALSE, nt |-> 2, irule |-> 165, recalc |-> FALSE],
      [cond |-> <<<<<<1>>, 2117>>>>, term |-> <<<<<<0>>, 2>>, <<<<1, 0>>, 7>>>>, k |-> 3, rng |-> <<>>, mv |-> FALSE, nt |-> 2, irule |-> 167, recalc |-> FALSE] >>],  \* BANDI2
    [op |-> 2438, labels |-> <<<<0>>, <<1>>>>, rules |-> <<
      [cond |-> <<<<<<0>>, 2118>>, <<<<0, 0>>, 711>>, <<<<1>>, 2118>>, <<<<1, 0>>, 711>>>>, term |-> <<>>, k |-> 3, rng |-> <<>>, mv |-> FALSE, nt |-> 2, irule |-> 21, recalc |-> FALSE],
      [cond |-> <<>>, term |-> <<<<<<0>>, 2>>, <<<<1>>, 2>>>>, k |-> 8, rng |-> <<>>, mv |-> FALSE, nt |-> 2, irule |-> 156, recalc |-> FALSE],
      [cond |-> <<<<<<0>>, 2118>>, <<<<1>>, 2118>>>>, term |-> <<<<<<0, 0>>, 8>>, <<<<1, 0>>, 8>>>>, k |-> 2, rng |-> <<>>, mv |-> FALSE, nt |-> 2, irule |-> 158, recalc |-> FALSE],
      [cond |-> <<<<<<1>>, 2118>>>>, term |-> <<<<<<0>>, 2>>, <<<<1, 0>>, 8>>>>, k |-> 3, rng |-> <<>>, mv |-> FALSE, nt |-> 2, irule |-> 160, recalc |-> FALSE],
      [cond |-> <<<<<<0>>, 2118>>, <<<<1>>, 2118>>>>, term |-> <<<<<<0, 0>>, 7>>, <<<<1, 0>>, 7>>>>, k |-> 4, rng |-> <<>>, mv |-> FALSE, nt |-> 2, irule |-> 162, recalc |-> FALSE],
      [cond |-> <<>>, term |-> <<<<<<0>>, 2>>, <<<<1>>, 3>>>>, k |-> 3, rng |-> <<>>, mv |-> FALSE, nt |-> 2, irule |-> 164, recalc |-> FALSE],
      [cond |-> <<<<<<0>>, 2118>>>>, term |-> <<<<<<0, 0>>, 8>>, <<<<1>>, 3>>>>, k |-> 4, rng |-> <<>>, mv |-> FALSE, nt |-> 2, irule |-> 166, recalc |-> FALSE],
      [cond |-> <<<<<<1>>, 2118>>>>, term |-> <<<<<<0>>, 2>>, <<<<1, 0>>, 7>>>>, k |-> 3, rng |-> <<>>, mv |-> FALSE, nt |-> 2, irule |-> 168, recalc |-> FALSE] >>],  \* BANDU2
    [op |-> 2453, labels |-> <<<<0>>>>, rules |-> <<
      [cond |-> <<>>, term |-> <<<<<<0>>, 2>>>>, k |-> 1, rng |-> <<>>, mv |-> FALSE, nt |-> 2, irule |-> 197, recalc |-> FALSE] >>],  \* BCOMI2
    [op |-> 2454, labels |-> <<<<0>>>>, rules |-> <<
      [cond |-> <<>>, term |-> <<<<<<0>>, 2>>>>, k |-> 1, rng |-> <<>>, mv |-> FALSE, nt |-> 2, irule |-> 198, recalc |-> FALSE] >>],  \* BCOMU2
    [op |-> 2469, labels |-> <<<<0>>, <<1>>>>, rules |-> <<
      [cond |-> <<<<<<0>>, 2117>>, <<<<0, 0>>, 711>>, <<<<1>>, 2117>>, <<<<1, 0>>, 711>>>>, term |-> <<>>, k |-> 3, rng |-> <<>>, mv |-> FALSE, nt |-> 2, irule |-> 22, recalc |-> FALSE],
      [cond |-> <<>>, term |-> <<<<<<0>>, 2>>, <<<<1>>, 2>>>>, k |-> 8, rng |-> <<>>, mv |-> FALSE, nt |-> 2, irule |-> 169, recalc |-> FALSE],
      [cond |-> <<<<<<0>>, 2117>>, <<<<1>>, 2117>>>>, term |-> <<<<<<0, 0>>, 8>>, <<<<1, 0>>, 8>>>>, k |-> 2, rng |-> <<>>, mv |-> FALSE, nt |-> 2, irule |-> 171, recalc |-> FALSE],
      [cond |-> <<<<<<1>>, 2117>>>>, term |-> <<<<<<0>>, 2>>, <<<<1, 0>>, 8>>>>, k |-> 3, rng |-> <<>>, mv |-> FALSE, nt |-> 2, irule |-> 173, recalc |-> FALSE],
      [cond |-> <<<<<<0>>, 2117>>, <<<<1>>, 2117>>>>, term |-> <<<<<<0, 0>>, 7>>, <<<<1, 0>>, 7>>>>, k |-> 4, rng |-> <<>>, mv |-> FALSE, nt |-> 2, irule |-> 175, recalc |-> FALSE],
      [cond |-> <<>>, term |-> <<<<<<0>>, 2>>, <<<<1>>, 3>>>>, k |-> 3, rng |-> <<>>, mv |-> FALSE, nt |-> 2, irule |-> 177, recalc |-> FALSE],
      [cond |-> <<<<<<0>>, 2117>>>>, term |-> <<<<<<0, 0>>, 8>>, <<<<1>>, 3>>>>, k |-> 4, rng |-> <<>>, mv |-> FALSE, nt |-> 2, irule |-> 179, recalc |-> FALSE],
      [cond |-> <<<<<<1>>, 2117>>>>, term |-> <<<<<<0>>, 2>>, <<<<1, 0>>, 7>>>>, k |-> 3, rng |-> <<>>, mv |-> FALSE, nt |-> 2, irule |-> 181, recalc |-> FALSE] >>],  \* BORI2
    [op |-> 2470, labels |-> <<<<0>>, <<1>>>>, rules |-> <<
      [cond |-> <<<<<<0>>, 2118>>, <<<<0, 0>>, 711>>, <<<<1>>, 2118>>, <<<<1, 0>>, 711>>>>, term |-> <<>>, k |-> 3, rng |-> <<>>, mv |-> FALSE, nt |-> 2, irule |-> 23, recalc |-> FALSE],
      [cond |-> <<>>, term |-> <<<<<<0>>, 2>>, <<<<1>>, 2>>>>, k |-> 8, rng |-> <<>>, mv |-> FALSE, nt |-> 2, irule |-> 170, recalc |-> FALSE],
      [cond |-> <<<<<<0>>, 2118>>, <<<<1>>, 2118>>>>, term |-> <<<<<<0, 0>>, 8>>, <<<<1, 0>>, 8>>>>, k |-> 2, rng |-> <<>>, mv |-> FALSE, nt |-> 2, irule |-> 172, recalc |-> FALSE],
      [cond |-> <<<<<<1>>, 2118>>>>, term |-> <<<<<<0>>, 2>>, <<<<1, 0>>, 8>>>>, k |-> 3, rng |-> <<>>, mv |-> FALSE, nt |-> 2, irule |-> 174, recalc |-> FALSE],
      [cond |-> <<<<<<0>>, 2118>>, <<<<1>>, 2118>>>>, term |-> <<<<<<0, 0>>, 7>>, <<<<1, 0>>, 7>>>>, k |-> 4, rng |-> <<>>, mv |-> FALSE, nt |-> 2, irule |-> 176, recalc |-> FALSE],
      [cond |-> <<>>, term |-> <<<<<<0>>, 2>>, <<<<1>>, 3>>>>, k |-> 3, rng |-> <<>>, mv |-> FALSE, nt |-> 2, irule |-> 178, recalc |-> FALSE],
      [cond |-> <<<<<<0>>, 2118>>>>, term |-> <<<<<<0, 0>>, 8>>, <<<<1>>, 3>>>>, k |-> 4, rng |-> <<>>, mv |-> FALSE, nt |-> 2, irule |-> 180, recalc |-> FALSE],
      [cond |-> <<<<<<1>>, 2118>>>>, term |-> <<<<<<0>>, 2>>, <<<<1, 0>>, 7>>>>, k |-> 3, rng |-> <<>>, mv |-> FALSE, nt |-> 2, irule |-> 182, recalc |-> FALSE] >>],  \* BORU2
    [op |-> 2485, labels |-> <<<<0>>, <<1>>>>, rules |-> <<
      [cond |-> <<<<<<0>>, 2117>>, <<<<0, 0>>, 711>>, <<<<1>>, 2117>>, <<<<1, 0>>, 711>>>>, term |-> <<>>, k |-> 3, rng |-> <<>>, mv |-> FALSE, nt |-> 2, irule |-> 18, recalc |-> FALSE],
      [cond |-> <<>>, term |-> <<<<<<0>>, 2>>, <<<<1>>, 2>>>>, k |-> 8, rng |-> <<>>, mv |-> FALSE, nt |-> 2, irule |-> 183, recalc |-> FALSE],
      [cond |-> <<<<<<0>>, 2117>>, <<<<1>>, 2117>>>>, term |-> <<<<<<0, 0>>, 8>>, <<<<1, 0>>, 8>>>>, k |-> 2, rng |-> <<>>, mv |-> FALSE, nt |-> 2, irule |-> 185, recalc |-> FALSE],
      [cond |-> <<<<<<1>>, 2117>>>>, term |-> <<<<<<0>>, 2>>, <<<<1, 0>>, 8>>>>, k |-> 3, rng |-> <<>>, mv |-> FALSE, nt |-> 2, irule |-> 187, recalc |-> FALSE],
      [cond |-> <<<<<<0>>, 2117>>, <<<<1>>, 2117>>>>, term |-> <<<<<<0, 0>>, 7>>, <<<<1, 0>>, 7>>>>, k |-> 4, rng |-> <<>>, mv |-> FALSE, nt |-> 2, irule |-> 189, recalc |-> FALSE],
      [cond |-> <<>>, term |-> <<<<<<0>>, 2>>, <<<<1>>, 3>>>>, k |-> 3, rng |-> <<>>, mv |-> FALSE, nt |-> 2, irule |-> 191, recalc |-> FALSE],
      [cond |-> <<<<<<0>>, 2117>>>>, term |-> <<<<<<0, 0>>, 8>>, <<<<1>>, 3>>>>, k |-> 4, rng |-> <<>>, mv |-> FALSE, nt |-> 2, irule |-> 193, recalc |-> FALSE],
      [cond |-> <<<<<<1>>, 2117>>>>, term |-> <<<<<<0>>, 2>>, <<<<1, 0>>, 7>>>>, k |-> 3, rng |-> <<>>, mv |-> FALSE, nt |-> 2, irule |-> 195, recalc |-> FALSE] >>],  \* BXORI2
    [op |-> 2486, labels |-> <<<<0>>, <<1>>>>, rules |-> <<
      [cond |-> <<<<<<0>>, 2118>>, <<<<0, 0>>, 711>>, <<<<1>>, 2118>>, <<<<1, 0>>, 711>>>>, term |-> <<>>, k |-> 3, rng |-> <<>>, mv |-> FALSE, nt |-> 2, irule |-> 19, recalc |-> FALSE],
      [cond |-> <<>>, term |-> <<<<<<0>>, 2>>, <<<<1>>, 2>>>>, k |-> 8, rng |-> <<>>, mv |-> FALSE, nt |-> 2, irule |-> 184, recalc |-> FALSE],
      [cond |-> <<<<<<0>>, 2118>>, <<<<1>>, 2118>>>>, term |-> <<<<<<0, 0>>, 8>>, <<<<1, 0>>, 8>>>>, k |-> 2, rng |-> <<>>, mv |-> FALSE, nt |-> 2, irule |-> 186, recalc |-> FALSE],
      [cond |-> <<<<<<1>>, 2118>>>>, term |-> <<<<<<0>>, 2>>, <<<<1, 0>>, 8>>>>, k |-> 3, rng |-> <<>>, mv |-> FALSE, nt |-> 2, irule |-> 188, recalc |-> FALSE],
      [cond |-> <<<<<<0>>, 2118>>, <<<<1>>, 2118>>>>, term |-> <<<<<<0, 0>>, 7>>, <<<<1, 0>>, 7>>>>, k |-> 4, rng |-> <<>>, mv |-> FALSE, nt |-> 2, irule |-> 190, recalc |-> FALSE],
      [cond |-> <<>>, term |-> <<<<<<0>>, 2>>, <<<<1>>, 3>>>>, k |-> 3, rng |-> <<>>, mv |-> FALSE, nt |-> 2, irule |-> 192, recalc |-> FALSE],
      [cond |-> <<<<<<0>>, 2118>>>>, term |-> <<<<<<0, 0>>, 8>>, <<<<1>>, 3>>>>, k |-> 4, rng |-> <<>>, mv |-> FALSE, nt |-> 2, irule |-> 194, recalc |-> FALSE],
      [cond |-> <<<<<<1>>, 2118>>>>, term |-> <<<<<<0>>, 2>>, <<<<1, 0>>, 7>>>>, k |-> 3, rng |-> <<>>, mv |-> FALSE, nt |-> 2, irule |-> 196, recalc |-> FALSE] >>],  \* BXORU2
    [op |-> 2501, labels |-> <<<<0>>, <<1>>>>, rules |-> <<
      [cond |-> <<>>, term |-> <<<<<<0>>, 2>>, <<<<1>>, 2>>>>, k |-> 3, rng |-> <<>>, mv |-> FALSE, nt |-> 2, irule |-> 121, recalc |-> FALSE],
      [cond |-> <<<<<<0>>, 2117>>, <<<<1>>, 2117>>>>, term |-> <<<<<<0, 0>>, 8>>, <<<<1, 0>>, 8>>>>, k |-> 4, rng |-> <<>>, mv |-> FALSE, nt |-> 2, irule |-> 123, recalc |-> FALSE],
      [cond |-> <<<<<<1>>, 2117>>>>, term |-> <<<<<<0>>, 2>>, <<<<1, 0>>, 8>>>>, k |-> 5, rng |-> <<>>, mv |-> FALSE, nt |-> 2, irule |-> 125, recalc |-> FALSE] >>],  \* DIVI2
    [op |-> 2502, labels |-> <<<<0>>, <<1>>>>, rules |-> <<
      [cond |-> <<>>, term |-> <<<<<<0>>, 2>>, <<<<1>>, 2>>>>, k |-> 3, rng |-> <<>>, mv |-> FALSE, nt |-> 2, irule |-> 122, recalc |-> FALSE],
      [cond |-> <<<<<<0>>, 2118>>, <<<<1>>, 2118>>>>, term |-> <<<<<<0, 0>>, 8>>, <<<<1, 0>>, 8>>>>, k |-> 4, rng |-> <<>>, mv |-> FALSE, nt |-> 2, irule |-> 124, recalc |-> FALSE],
      [cond |-> <<<<<<1>>, 2118>>>>, term |-> <<<<<<0>>, 2>>, <<<<1, 0>>, 8>>>>, k |-> 5, rng |-> <<>>, mv |-> FALSE, nt |-> 2, irule |-> 126, recalc |-> FALSE] >>],  \* DIVU2
    [op |-> 2517, labels |-> <<<<0>>, <<1>>>>, rules |-> <<
      [cond |-> <<<<<<0>>, 2117>>, <<<<0, 0>>, 711>>, <<<<1>>, 2117>>, <<<<1, 0>>, 711>>>>, term |-> <<>>, k |-> 3, rng |-> <<>>, mv |-> FALSE, nt |-> 2, irule |-> 14, recalc |-> FALSE],
      [cond |-> <<>>, term |-> <<<<<<0>>, 2>>, <<<<1>>, 2>>>>, k |-> 3, rng |-> <<>>, mv |-> FALSE, nt |-> 2, irule |-> 117, recalc |-> FALSE] >>],  \* MULI2
    [op |-> 2518, labels |-> <<<<0>>, <<1>>>>, rules |-> <<
      [cond |-> <<<<<<0>>, 2118>>, <<<<0, 0>>, 711>>, <<<<1>>, 2118>>, <<<<1, 0>>, 711>>>>, term |-> <<>>, k |-> 3, rng |-> <<>>, mv |-> FALSE, nt |-> 2, irule |-> 15, recalc |-> FALSE],
      [cond |-> <<>>, term |-> <<<<<<0>>, 2>>, <<<<1>>, 2>>>>, k |-> 3, rng |-> <<>>, mv |-> FALSE, nt |-> 2, irule |-> 118, recalc |-> FALSE] >>],  \* MULU2
    [op |-> 2533, labels |-> <<<<0>>, <<1>>>>, rules |-> <<
      [cond |-> <<<<<<0>>, 2117>>, <<<<1>>, 2117>>>>, term |-> <<<<<<0, 0>>, 8>>, <<<<1, 0>>, 8>>>>, k |-> 3, rng |-> <<>>, mv |-> FALSE, nt |-> 1, irule |-> 55, recalc |-> FALSE],
      [cond |-> <<<<<<1>>, 2117>>>>, term |-> <<<<<<0>>, 2>>, <<<<1, 0>>, 8>>>>, k |-> 4, rng |-> <<>>, mv |-> FALSE, nt |-> 1, irule |-> 57, recalc |-> FALSE],
      [cond |-> <<>>, term |-> <<<<<<0>>, 2>>, <<<<1>>, 2>>>>, k |-> 10, rng |-> <<>>, mv |-> FALSE, nt |-> 1, irule |-> 59, recalc |-> FALSE],
      [cond |-> <<<<<<0>>, 2117>>>>, term |-> <<<<<<0, 0>>, 8>>, <<<<1>>, 3>>>>, k |-> 2, rng |-> <<>>, mv |-> FALSE, nt |-> 1, irule |-> 107, recalc |-> FALSE],
      [cond |-> <<>>, term |-> <<<<<<0>>, 2>>, <<<<1>>, 3>>>>, k |-> 3, rng |-> <<>>, mv |-> FALSE, nt |-> 1, irule |-> 109, recalc |-> FALSE] >>],  \* EQI2
    [op |-> 2534, labels |-> <<<<0>>, <<1>>>>, rules |-> <<
      [cond |-> <<<<<<0>>, 2118>>, <<<<1>>, 2118>>>>, term |-> <<<<<<0, 0>>, 8>>, <<<<1, 0>>, 8>>>>, k |-> 3, rng |-> <<>>, mv |-> FALSE, nt |-> 1, irule |-> 56, recalc |-> FALSE],
      [cond |-> <<<<<<1>>, 2118>>>>, term |-> <<<<<<0>>, 2>>, <<<<1, 0>>, 8>>>>, k |-> 4, rng |-> <<>>, mv |-> FALSE, nt |-> 1, irule |-> 58, recalc |-> FALSE],
      [cond |-> <<>>, term |-> <<<<<<0>>, 2>>, <<<<1>>, 2>>>>, k |-> 10, rng |-> <<>>, mv |-> FALSE, nt |-> 1, irule |-> 60, recalc |-> FALSE],
      [cond |-> <<<<<<0>>, 2118>>>>, term |-> <<<<<<0, 0>>, 8>>, <<<<1>>, 3>>>>, k |-> 2, rng |-> <<>>, mv |-> FALSE, nt |-> 1, irule |-> 108, recalc |-> FALSE],
      [cond |-> <<>>, term |-> <<<<<<0>>, 2>>, <<<<1>>, 3>>>>, k |-> 3, rng |-> <<>>, mv |-> FALSE, nt |-> 1, irule |-> 110, recalc |-> FALSE] >>],  \* EQU2
    [op |-> 2549, labels |-> <<<<0>>, <<1>>>>, rules |-> <<
      [cond |-> <<<<<<0>>, 2117>>, <<<<1>>, 2117>>>>, term |-> <<<<<<0, 0>>, 8>>, <<<<1, 0>>, 8>>>>, k |-> 3, rng |-> <<>>, mv |-> FALSE, nt |-> 1, irule |-> 85, recalc |-> FALSE],
      [cond |-> <<<<<<1>>, 2117>>>>, term |-> <<<<<<0>>, 2>>, <<<<1, 0>>, 8>>>>, k |-> 4, rng |-> <<>>, mv |-> FALSE, nt |-> 1, irule |-> 87, recalc |-> FALSE],
      [cond |-> <<>>, term |-> <<<<<<0>>, 2>>, <<<<1>>, 2>>>>, k |-> 10, rng |-> <<>>, mv |-> FALSE, nt |-> 1, irule |-> 89, recalc |-> FALSE],
      [cond |-> <<<<<<0>>, 2117>>>>, term |-> <<<<<<0, 0>>, 8>>, <<<<1>>, 3>>>>, k |-> 2, rng |-> <<>>, mv |-> FALSE, nt |-> 1, irule |-> 99, recalc |-> FALSE],
      [cond |-> <<>>, term |-> <<<<<<0>>, 2>>, <<<<1>>, 3>>>>, k |-> 3, rng |-> <<>>, mv |-> FALSE, nt |-> 1, irule |-> 101, recalc |-> FALSE] >>],  \* GEI2
    [op |-> 2550, labels |-> <<<<0>>, <<1>>>>, rules |-> <<
      [cond |-> <<<<<<0>>, 2118>>, <<<<1>>, 2118>>>>, term |-> <<<<<<0, 0>>, 8>>, <<<<1, 0>>, 8>>>>, k |-> 3, rng |-> <<>>, mv |-> FALSE, nt |-> 1, irule |-> 86, recalc |-> FALSE],
      [cond |-> <<<<<<1>>, 2118>>>>, term |-> <<<<<<0>>, 2>>, <<<<1, 0>>, 8>>>>, k |-> 4, rng |-> <<>>, mv |-> FALSE, nt |-> 1, irule |-> 88, recalc |-> FALSE],
      [cond |-> <<>>, term |-> <<<<<<0>>, 2>>, <<<<1>>, 2>>>>, k |-> 10, rng |-> <<>>, mv |-> FALSE, nt |-> 1, irule |-> 90, recalc |-> FALSE],
      [cond |-> <<<<<<0>>, 2118>>>>, term |-> <<<<<<0, 0>>, 8>>, <<<<1>>, 3>>>>, k |-> 2, rng |-> <<>>, mv |-> FALSE, nt |-> 1, irule |-> 100, recalc |-> FALSE],
      [cond |-> <<>>, term |-> <<<<<<0>>, 2>>, <<<<1>>, 3>>>>, k |-> 3, rng |-> <<>>, mv |-> FALSE, nt |-> 1, irule |-> 102, recalc |-> FALSE] >>],  \* GEU2
    [op |-> 2565, labels |-> <<<<0>>, <<1>>>>, rules |-> <<
      [cond |-> <<<<<<0>>, 2117>>, <<<<1>>, 2117>>>>, term |-> <<<<<<0, 0>>, 8>>, <<<<1, 0>>, 8>>>>, k |-> 3, rng |-> <<>>, mv |-> FALSE, nt |-> 1, irule |-> 79, recalc |-> FALSE],
      [cond |-> <<<<<<1>>, 2117>>>>, term |-> <<<<<<0>>, 2>>, <<<<1, 0>>, 8>>>>, k |-> 4, rng |-> <<>>, mv |-> FALSE, nt |-> 1, irule |-> 81, recalc |-> FALSE],
      [cond |-> <<>>, term |-> <<<<<<0>>, 2>>, <<<<1>>, 2>>>>, k |-> 10, rng |-> <<>>, mv |-> FALSE, nt |-> 1, irule |-> 83, recalc |-> FALSE],
      [cond |-> <<<<<<0>>, 2117>>>>, term |-> <<<<<<0, 0>>, 8>>, <<<<1>>, 3>>>>, k |-> 2, rng |-> <<>>, mv |-> FALSE, nt |-> 1, irule |-> 95, recalc |-> FALSE],
      [cond |-> <<>>, term |-> <<<<<<0>>, 2>>, <<<<1>>, 3>>>>, k |-> 3, rng |-> <<>>, mv |-> FALSE, nt |-> 1, irule |-> 97, recalc |-> FALSE] >>],  \* GTI2
    [op |-> 2566, labels |-> <<<<0>>, <<1>>>>, rules |-> <<
      [cond |-> <<<<<<0>>, 2118>>, <<<<1>>, 2118>>>>, term |-> <<<<<<0, 0>>, 8>>, <<<<1, 0>>, 8>>>>, k |-> 3, rng |-> <<>>, mv |-> FALSE, nt |-> 1, irule |-> 80, recalc |-> FALSE],
      [cond |-> <<<<<<1>>, 2118>>>>, term |-> <<<<<<0>>, 2>>, <<<<1, 0>>, 8>>>>, k |-> 4, rng |-> <<>>, mv |-> FALSE, nt |-> 1, irule |-> 82, recalc |-> FALSE],
      [cond |-> <<>>, term |-> <<<<<<0>>, 2>>, <<<<1>>, 2>>>>, k |-> 10, rng |-> <<>>, mv |-> FALSE, nt |-> 1, irule |-> 84, recalc |-> FALSE],
      [cond |-> <<<<<<0>>, 2118>>>>, term |-> <<<<<<0, 0>>, 8>>, <<<<1>>, 3>>>>, k |-> 2, rng |-> <<>>, mv |-> FALSE, nt |-> 1, irule |-> 96, recalc |-> FALSE],
      [cond |-> <<>>, term |-> <<<<<<0>>, 2>>, <<<<1>>, 3>>>>, k |-> 3, rng |-> <<>>, mv |-> FALSE, nt |-> 1, irule |-> 98, recalc |-> FALSE] >>],  \* GTU2
    [op |-> 2581, labels |-> <<<<0>>, <<1>>>>, rules |-> <<
      [cond |-> <<<<<<0>>, 2117>>, <<<<1>>, 2117>>>>, term |-> <<<<<<0, 0>>, 8>>, <<<<1, 0>>, 8>>>>, k |-> 3, rng |-> <<>>, mv |-> FALSE, nt |-> 1, irule |-> 73, recalc |-> FALSE],
      [cond |-> <<<<<<1>>, 2117>>>>, term |-> <<<<<<0>>, 2>>, <<<<1, 0>>, 8>>>>, k |-> 4, rng |-> <<>>, mv |-> FALSE, nt |-> 1, irule |-> 75, recalc |-> FALSE],
      [cond |-> <<>>, term |-> <<<<<<0>>, 2>>, <<<<1>>, 2>>>>, k |-> 10, rng |-> <<>>, mv |-> FALSE, nt |-> 1, irule |-> 77, recalc |-> FALSE],
      [cond |-> <<<<<<0>>, 2117>>>>, term |-> <<<<<<0, 0>>, 8>>, <<<<1>>, 3>>>>, k |-> 2, rng |-> <<>>, mv |-> FALSE, nt |-> 1, irule |-> 91, recalc |-> FALSE],
      [cond |-> <<>>, term |-> <<<<<<0>>, 2>>, <<<<1>>, 3>>>>, k |-> 3, rng |-> <<>>, mv |-> FALSE, nt |-> 1, irule |-> 93, recalc |-> FALSE] >>],  \* LEI2
    [op |-> 2582, labels |-> <<<<0>>, <<1>>>>, rules |-> <<
      [cond |-> <<<<<<0>>, 2118>>, <<<<1>>, 2118>>>>, term |-> <<<<<<0, 0>>, 8>>, <<<<1, 0>>, 8>>>>, k |-> 3, rng |-> <<>>, mv |-> FALSE, nt |-> 1, irule |-> 74, recalc |-> FALSE],
      [cond |-> <<<<<<1>>, 2118>>>>, term |-> <<<<<<0>>, 2>>, <<<<1, 0>>, 8>>>>, k |-> 4, rng |-> <<>>, mv |-> FALSE, nt |-> 1, irule |-> 76, recalc |-> FALSE],
      [cond |-> <<>>, term |-> <<<<<<0>>, 2>>, <<<<1>>, 2>>>>, k |-> 10, rng |-> <<>>, mv |-> FALSE, nt |-> 1, irule |-> 78, recalc |-> FALSE],
      [cond |-> <<<<<<0>>, 2118>>>>, term |-> <<<<<<0, 0>>, 8>>, <<<<1>>, 3>>>>, k |-> 2, rng |-> <<>>, mv |-> FALSE, nt |-> 1, irule |-> 92, recalc |-> FALSE],
      [cond |-> <<>>, term |-> <<<<<<0>>, 2>>, <<<<1>>, 3>>>>, k |-> 3, rng |-> <<>>, mv |-> FALSE, nt |-> 1, irule |-> 94, recalc |-> FALSE] >>],  \* LEU2
    [op |-> 2597, labels |-> <<<<0>>, <<1>>>>, rules |-> <<
      [cond |-> <<<<<<0>>, 2117>>, <<<<1>>, 2117>>>>, term |-> <<<<<<0, 0>>, 8>>, <<<<1, 0>>, 8>>>>, k |-> 3, rng |-> <<>>, mv |-> FALSE, nt |-> 1, irule |-> 67, recalc |-> FALSE],
      [cond |-> <<<<<<1>>, 2117>>>>, term |-> <<<<<<0>>, 2>>, <<<<1, 0>>, 8>>>>, k |-> 4, rng |-> <<>>, mv |-> FALSE, nt |-> 1, irule |-> 69, recalc |-> FALSE],
      [cond |-> <<>>, term |-> <<<<<<0>>, 2>>, <<<<1>>, 2>>>>, k |-> 10, rng |-> <<>>, mv |-> FALSE, nt |-> 1, irule |-> 71, recalc |-> FALSE],
      [cond |-> <<<<<<0>>, 2117>>>>, term |-> <<<<<<0, 0>>, 8>>, <<<<1>>, 3>>>>, k |-> 2, rng |-> <<>>, mv |-> FALSE, nt |-> 1, irule |-> 103, recalc |-> FALSE],
      [cond |-> <<>>, term |-> <<<<<<0>>, 2>>, <<<<1>>, 3>>>>, k |-> 3, rng |-> <<>>, mv |-> FALSE, nt |-> 1, irule |-> 105, recalc |-> FALSE] >>],  \* LTI2
    [op |-> 2598, labels |-> <<<<0>>, <<1>>>>, rules |-> <<
      [cond |-> <<<<<<0>>, 2118>>, <<<<1>>, 2118>>>>, term |-> <<<<<<0, 0>>, 8>>, <<<<1, 0>>, 8>>>>, k |-> 3, rng |-> <<>>, mv |-> FALSE, nt |-> 1, irule |-> 68, recalc |-> FALSE],
      [cond |-> <<<<<<1>>, 2118>>>>, term |-> <<<<<<0>>, 2>>, <<<<1, 0>>, 8>>>>, k |-> 4, rng |-> <<>>, mv |-> FALSE, nt |-> 1, irule |-> 70, recalc |-> FALSE],
      [cond |-> <<>>, term |-> <<<<<<0>>, 2>>, <<<<1>>, 2>>>>, k |-> 10, rng |-> <<>>, mv |-> FALSE, nt |-> 1, irule |-> 72, recalc |-> FALSE],
      [cond |-> <<<<<<0>>, 2118>>>>, term |-> <<<<<<0, 0>>, 8>>, <<<<1>>, 3>>>>, k |-> 2, rng |-> <<>>, mv |-> FALSE, nt |-> 1, irule |-> 104, recalc |-> FALSE],
      [cond |-> <<>>, term |-> <<<<<<0>>, 2>>, <<<<1>>, 3>>>>, k |-> 3, rng |-> <<>>, mv |-> FALSE, nt |-> 1, irule |-> 106, recalc |-> FALSE] >>],  \* LTU2
    [op |-> 2613, labels |-> <<<<0>>, <<1>>>>, rules |-> <<
      [cond |-> <<<<<<0>>, 2117>>, <<<<1>>, 2117>>>>, term |-> <<<<<<0, 0>>, 8>>, <<<<1, 0>>, 8>>>>, k |-> 3, rng |-> <<>>, mv |-> FALSE, nt |-> 1, irule |-> 61, recalc |-> FALSE],
      [cond |-> <<<<<<1>>, 2117>>>>, term |-> <<<<<<0>>, 2>>, <<<<1, 0>>, 8>>>>, k |-> 4, rng |-> <<>>, mv |-> FALSE, nt |-> 1, irule |-> 63, recalc |-> FALSE],
      [cond |-> <<>>, term |-> <<<<<<0>>, 2>>, <<<<1>>, 2>>>>, k |-> 10, rng |-> <<>>, mv |-> FALSE, nt |-> 1, irule |-> 65, recalc |-> FALSE],
      [cond |-> <<<<<<0>>, 2117>>>>, term |-> <<<<<<0, 0>>, 8>>, <<<<1>>, 3>>>>, k |-> 2, rng |-> <<>>, mv |-> FALSE, nt |-> 1, irule |-> 111, recalc |-> FALSE],
      [cond |-> <<>>, term |-> <<<<<<0>>, 2>>, <<<<1>>, 3>>>>, k |-> 3, rng |-> <<>>, mv |-> FALSE, nt |-> 1, irule |-> 113, recalc |-> FALSE] >>],  \* NEI2
    [op |-> 2614, labels |-> <<<<0>>, <<1>>>>, rules |-> <<
      [cond |-> <<<<<<0>>, 2118>>, <<<<1>>, 2118>>>>, term |-> <<<<<<0, 0>>, 8>>, <<<<1, 0>>, 8>>>>, k |-> 3, rng |-> <<>>, mv |-> FALSE, nt |-> 1, irule |-> 62, recalc |-> FALSE],
      [cond |-> <<<<<<1>>, 2118>>>>, term |-> <<<<<<0>>, 2>>, <<<<1, 0>>, 8>>>>, k |-> 4, rng |-> <<>>, mv |-> FALSE, nt |-> 1, irule |-> 64, recalc |-> FALSE],
      [cond |-> <<>>, term |-> <<<<<<0>>, 2>>, <<<<1>>, 2>>>>, k |-> 10, rng |-> <<>>, mv |-> FALSE, nt |-> 1, irule |-> 66, recalc |-> FALSE],
      [cond |-> <<<<<<0>>, 2118>>>>, term |-> <<<<<<0, 0>>, 8>>, <<<<1>>, 3>>>>, k |-> 2, rng |-> <<>>, mv |-> FALSE, nt |-> 1, irule |-> 112, recalc |-> FALSE],
      [cond |-> <<>>, term |-> <<<<<<0>>, 2>>, <<<<1>>, 3>>>>, k |-> 3, rng |-> <<>>, mv |-> FALSE, nt |-> 1, irule |-> 114, recalc |-> FALSE] >>],  \* NEU2
    [op |-> 4117, labels |-> <<>>, rules |-> <<
      [cond |-> <<>>, term |-> <<>>, k |-> 0, rng |-> <<>>, mv |-> FALSE, nt |-> 5, irule |-> 1, recalc |-> FALSE] >>],  \* CNSTI4
    [op |-> 4118, labels |-> <<>>, rules |-> <<
      [cond |-> <<>>, term |-> <<>>, k |-> 0, rng |-> <<>>, mv |-> FALSE, nt |-> 5, irule |-> 2, recalc |-> FALSE] >>],  \* CNSTU4
    [op |-> 4119, labels |-> <<>>, rules |-> <<
      [cond |-> <<>>, term |-> <<>>, k |-> 0, rng |-> <<>>, mv |-> FALSE, nt |-> 5, irule |-> 3, recalc |-> FALSE] >>],  \* CNSTP4
    [op |-> 4133, labels |-> <<<<0>>>>, rules |-> <<
      [cond |-> <<>>, term |-> <<<<<<0>>, 2>>>>, k |-> 2, rng |-> <<>>, mv |-> FALSE, nt |-> 1, irule |-> 120, recalc |-> FALSE] >>],  \* ARGI4
    [op |-> 4134, labels |-> <<<<0>>>>, rules |-> <<
      [cond |-> <<>>, term |-> <<<<<<0>>, 2>>>>, k |-> 2, rng |-> <<>>, mv |-> FALSE, nt |-> 1, irule |-> 121, recalc |-> FALSE] >>],  \* ARGU4
    [op |-> 4135, labels |-> <<<<0>>>>, rules |-> <<
      [cond |-> <<>>, term |-> <<<<<<0>>, 2>>>>, k |-> 2, rng |-> <<>>, mv |-> FALSE, nt |-> 1, irule |-> 122, recalc |-> FALSE] >>],  \* ARGP4
    [op |-> 4149, labels |-> <<<<0>>, <<1>>>>, rules |-> <<
      [cond |-> <<<<<<0>>, 711>>>>, term |-> <<<<<<1>>, 2>>>>, k |-> 0, rng |-> <<>>, mv |-> FALSE, nt |-> 1, irule |-> 6, recalc |-> FALSE],
      [cond |-> <<>>, term |-> <<<<<<0>>, 7>>, <<<<1>>, 2>>>>, k |-> 4, rng |-> <<>>, mv |-> FALSE, nt |-> 1, irule |-> 19, recalc |-> FALSE] >>],  \* ASGNI4
    [op |-> 4150, labels |-> <<<<0>>, <<1>>>>, rules |-> <<
      [cond |-> <<<<<<0>>, 711>>>>, term |-> <<<<<<1>>, 2>>>>, k |-> 0, rng |-> <<>>, mv |-> FALSE, nt |-> 1, irule |-> 7, recalc |-> FALSE],
      [cond |-> <<>>, term |-> <<<<<<0>>, 7>>, <<<<1>>, 2>>>>, k |-> 4, rng |-> <<>>, mv |-> FALSE, nt |-> 1, irule |-> 20, recalc |-> FALSE] >>],  \* ASGNU4
    [op |-> 4151, labels |-> <<<<0>>, <<1>>>>, rules |-> <<
      [cond |-> <<<<<<0>>, 711>>>>, term |-> <<<<<<1>>, 2>>>>, k |-> 0, rng |-> <<>>, mv |-> FALSE, nt |-> 1, irule |-> 8, recalc |-> FALSE],
      [cond |-> <<>>, term |-> <<<<<<0>>, 7>>, <<<<1>>, 2>>>>, k |-> 4, rng |-> <<>>, mv |-> FALSE, nt |-> 1, irule |-> 21, recalc |-> FALSE] >>],  \* ASGNP4
    [op |-> 4165, labels |-> <<<<0>>>>, rules |-> <<
      [cond |-> <<<<<<0>>, 711>>>>, term |-> <<>>, k |-> 0, rng |-> <<>>, mv |-> FALSE, nt |-> 2, irule |-> 6, recalc |-> TRUE],
      [cond |-> <<>>, term |-> <<<<<<0>>, 7>>>>, k |-> 4, rng |-> <<>>, mv |-> FALSE, nt |-> 2, irule |-> 40, recalc |-> FALSE] >>],  \* INDIRI4
    [op |-> 4166, labels |-> <<<<0>>>>, rules |-> <<
      [cond |-> <<<<<<0>>, 711>>>>, term |-> <<>>, k |-> 0, rng |-> <<>>, mv |-> FALSE, nt |-> 2, irule |-> 7, recalc |-> TRUE],
      [cond |-> <<>>, term |-> <<<<<<0>>, 7>>>>, k |-> 4, rng |-> <<>>, mv |-> FALSE, nt |-> 2, irule |-> 41, recalc |-> FALSE] >>],  \* INDIRU4
    [op |-> 4167, labels |-> <<<<0>>>>, rules |-> <<
      [cond |-> <<<<<<0>>, 711>>>>, term |-> <<>>, k |-> 0, rng |-> <<>>, mv |-> FALSE, nt |-> 2, irule |-> 8, recalc |-> TRUE],
      [cond |-> <<>>, term |-> <<<<<<0>>, 7>>>>, k |-> 4, rng |-> <<>>, mv |-> FALSE, nt |-> 2, irule |-> 42, recalc |-> FALSE] >>],  \* INDIRP4
    [op |-> 4229, labels |-> <<<<0>>>>, rules |-> <<
      [cond |-> <<>>, term |-> <<<<<<0>>, 2>>>>, k |-> 8, rng |-> <<>>, mv |-> FALSE, nt |-> 2, irule |-> 227, recalc |-> FALSE] >>],  \* CVII4
    [op |-> 4230, labels |-> <<<<0>>>>, rules |-> <<
      [cond |-> <<>>, term |-> <<<<<<0>>, 2>>>>, k |-> 2, rng |-> <<>>, mv |-> FALSE, nt |-> 2, irule |-> 228, recalc |-> FALSE] >>],  \* CVIU4
    [op |-> 4246, labels |-> <<<<0>>>>, rules |-> <<
      [cond |-> <<>>, term |-> <<<<<<0>>, 2>>>>, k |-> 2, rng |-> <<>>, mv |-> FALSE, nt |-> 2, irule |-> 231, recalc |-> FALSE] >>],  \* CVPU4
    [op |-> 4277, labels |-> <<<<0>>>>, rules |-> <<
      [cond |-> <<>>, term |-> <<<<<<0>>, 2>>>>, k |-> 2, rng |-> <<>>, mv |-> FALSE, nt |-> 2, irule |-> 229, recalc |-> FALSE] >>],  \* CVUI4
    [op |-> 4278, labels |-> <<<<0>>>>, rules |-> <<
      [cond |-> <<>>, term |-> <<<<<<0>>, 2>>>>, k |-> 2, rng |-> <<>>, mv |-> FALSE, nt |-> 2, irule |-> 230, recalc |-> FALSE] >>],  \* CVUU4
    [op |-> 4279, labels |-> <<<<0>>>>, rules |-> <<
      [cond |-> <<>>, term |-> <<<<<<0>>, 2>>>>, k |-> 0, rng |-> <<>>, mv |-> FALSE, nt |-> 2, irule |-> 232, recalc |-> FALSE] >>],  \* CVUP4
    [op |-> 4309, labels |-> <<<<0>>>>, rules |-> <<
      [cond |-> <<>>, term |-> <<<<<<0>>, 7>>>>, k |-> 8, rng |-> <<>>, mv |-> FALSE, nt |-> 2, irule |-> 238, recalc |-> FALSE] >>],  \* CALLI4
    [op |-> 4310, labels |-> <<<<0>>>>, rules |-> <<
      [cond |-> <<>>, term |-> <<<<<<0>>, 7>>>>, k |-> 8, rng |-> <<>>, mv |-> FALSE, nt |-> 2, irule |-> 239, recalc |-> FALSE] >>],  \* CALLU4
    [op |-> 4311, labels |-> <<<<0>>>>, rules |-> <<
      [cond |-> <<>>, term |-> <<<<<<0>>, 7>>>>, k |-> 8, rng |-> <<>>, mv |-> FALSE, nt |-> 2, irule |-> 240, recalc |-> FALSE] >>],  \* CALLP4
    [op |-> 4325, labels |-> <<<<0>>>>, rules |-> <<
      [cond |-> <<>>, term |-> <<<<<<0>>, 2>>>>, k |-> 0, rng |-> <<>>, mv |-> TRUE, nt |-> 2, irule |-> 246, recalc |-> FALSE] >>],  \* LOADI4
    [op |-> 4326, labels |-> <<<<0>>>>, rules |-> <<
      [cond |-> <<>>, term |-> <<<<<<0>>, 2>>>>, k |-> 0, rng |-> <<>>, mv |-> TRUE, nt |-> 2, irule |-> 247, recalc |-> FALSE] >>],  \* LOADU4
    [op |-> 4327, labels |-> <<<<0>>>>, rules |-> <<
      [cond |-> <<>>, term |-> <<<<<<0>>, 2>>>>, k |-> 0, rng |-> <<>>, mv |-> TRUE, nt |-> 2, irule |-> 248, recalc |-> FALSE] >>],  \* LOADP4
    [op |-> 4341, labels |-> <<<<0>>>>, rules |-> <<
      [cond |-> <<>>, term |-> <<<<<<0>>, 2>>>>, k |-> 0, rng |-> <<>>, mv |-> FALSE, nt |-> 1, irule |-> 129, recalc |-> FALSE] >>],  \* RETI4
    [op |-> 4342, labels |-> <<<<0>>>>, rules |-> <<
      [cond |-> <<>>, term |-> <<<<<<0>>, 2>>>>, k |-> 0, rng |-> <<>>, mv |-> FALSE, nt |-> 1, irule |-> 130, recalc |-> FALSE] >>],  \* RETU4
    [op |-> 4343, labels |-> <<<<0>>>>, rules |-> <<
      [cond |-> <<>>, term |-> <<<<<<0>>, 2>>>>, k |-> 0, rng |-> <<>>, mv |-> FALSE, nt |-> 1, irule |-> 131, recalc |-> FALSE] >>],  \* RETP4
    [op |-> 4359, labels |-> <<>>, rules |-> <<
      [cond |-> <<>>, term |-> <<>>, k |-> 0, rng |-> <<>>, mv |-> FALSE, nt |-> 7, irule |-> 2, recalc |-> FALSE] >>],  \* ADDRGP4
    [op |-> 4375, labels |-> <<>>, rules |-> <<
      [cond |-> <<>>, term |-> <<>>, k |-> 0, rng |-> <<>>, mv |-> FALSE, nt |-> 8, irule |-> 3, recalc |-> FALSE] >>],  \* ADDRFP4
    [op |-> 4391, labels |-> <<>>, rules |-> <<
      [cond |-> <<>>, term |-> <<>>, k |-> 0, rng |-> <<>>, mv |-> FALSE, nt |-> 8, irule |-> 4, recalc |-> FALSE] >>],  \* ADDRLP4
    [op |-> 4405, labels |-> <<<<0>>, <<1>>>>, rules |-> <<
      [cond |-> <<>>, term |-> <<<<<<0>>, 2>>, <<<<1>>, 2>>>>, k |-> 10, rng |-> <<>>, mv |-> FALSE, nt |-> 2, irule |-> 111, recalc |-> FALSE] >>],  \* ADDI4
    [op |-> 4406, labels |-> <<<<0>>, <<1>>>>, rules |-> <<
      [cond |-> <<>>, term |-> <<<<<<0>>, 2>>, <<<<1>>, 2>>>>, k |-> 10, rng |-> <<>>, mv |-> FALSE, nt |-> 2, irule |-> 112, recalc |-> FALSE] >>],  \* ADDU4
    [op |-> 4421, labels |-> <<<<0>>, <<1>>>>, rules |-> <<
      [cond |-> <<>>, term |-> <<<<<<0>>, 2>>, <<<<1>>, 2>>>>, k |-> 10, rng |-> <<>>, mv |-> FALSE, nt |-> 2, irule |-> 113, recalc |-> FALSE] >>],  \* SUBI4
    [op |-> 4422, labels |-> <<<<0>>, <<1>>>>, rules |-> <<
      [cond |-> <<>>, term |-> <<<<<<0>>, 2>>, <<<<1>>, 2>>>>, k |-> 10, rng |-> <<>>, mv |-> FALSE, nt |-> 2, irule |-> 114, recalc |-> FALSE] >>]  \* SUBU4
  >>

(* The switch of _kids: per external rule, the kids[] entries written, each as
   <<index, path from p>> *)

_kids_cases ==
  <<
    [eruleno |-> 1, writes |-> <<>>],
    [eruleno |-> 2, writes |-> <<>>],
    [eruleno |-> 3, writes |-> <<>>],
    [eruleno |-> 4, writes |-> <<>>],
    [eruleno |-> 5, writes |-> <<>>],
    [eruleno |-> 6, writes |-> <<>>],
    [eruleno |-> 7, writes |-> <<>>],
    [eruleno |-> 8, writes |-> <<>>],
    [eruleno |-> 9, writes |-> <<>>],
    [eruleno |-> 10, writes |-> <<>>],
    [eruleno |-> 11, writes |-> <<>>],
    [eruleno |-> 12, writes |-> <<<<0, <<1>>>>>>],
    [eruleno |-> 13, writes |-> <<<<0, <<1>>>>>>],
    [eruleno |-> 14, writes |-> <<>>],
    [eruleno |-> 15, writes |-> <<>>],
    [eruleno |-> 16, writes |-> <<>>],
    [eruleno |-> 17, writes |-> <<>>],
    [eruleno |-> 18, writes |-> <<>>],
    [eruleno |-> 19, writes |-> <<>>],
    [eruleno |-> 20, writes |-> <<>>],
    [eruleno |-> 21, writes |-> <<>>],
    [eruleno |-> 22, writes |-> <<>>],
    [eruleno |-> 23, writes |-> <<>>],
    [eruleno |-> 24, writes |-> <<<<0, <<1>>>>>>],
    [eruleno |-> 25, writes |-> <<<<0, <<1>>>>>>],
    [eruleno |-> 26, writes |-> <<<<0, <<1>>>>>>],
    [eruleno |-> 27, writes |-> <<<<0, <<1>>>>>>],
    [eruleno |-> 28, writes |-> <<<<0, <<1>>>>>>],
    [eruleno |-> 29, writes |-> <<<<0, <<1>>>>>>],
    [eruleno |-> 30, writes |-> <<<<0, <<1>>>>>>],
    [eruleno |-> 31, writes |-> <<<<0, <<1>>>>>>],
    [eruleno |-> 32, writes |-> <<>>],
    [eruleno |-> 33, writes |-> <<>>],
    [eruleno |-> 34, writes |-> <<>>],
    [eruleno |-> 35, writes |-> <<>>],
    [eruleno |-> 36, writes |-> <<>>],
    [eruleno |-> 37, writes |-> <<>>],
    [eruleno |-> 38, writes |-> <<>>],
    [eruleno |-> 39, writes |-> <<>>],
    [eruleno |-> 40, writes |-> <<>>],
    [eruleno |-> 41, writes |-> <<>>],
    [eruleno |-> 42, writes |-> <<<<0, <<>>>>>>],
    [eruleno |-> 43, writes |-> <<<<0, <<>>>>>>],
    [eruleno |-> 44, writes |-> <<<<0, <<>>>>>>],
    [eruleno |-> 45, writes |-> <<>>],
    [eruleno |-> 46, writes |-> <<>>],
    [eruleno |-> 47, writes |-> <<>>],
    [eruleno |-> 48, writes |-> <<>>],
    [eruleno |-> 49, writes |-> <<>>],
    [eruleno |-> 50, writes |-> <<>>],
    [eruleno |-> 51, writes |-> <<<<0, <<>>>>>>],
    [eruleno |-> 52, writes |-> <<>>],
    [eruleno |-> 53, writes |-> <<>>],
    [eruleno |-> 54, writes |-> <<>>],
    [eruleno |-> 55, writes |-> <<<<0, <<0>>>>>>],
    [eruleno |-> 56, writes |-> <<<<0, <<0>>>>>>],
    [eruleno |-> 57, writes |-> <<<<0, <<0>>>>>>],
    [eruleno |-> 58, writes |-> <<<<0, <<0>>>>>>],
    [eruleno |-> 59, writes |-> <<<<0, <<0>>>>>>],
    [eruleno |-> 60, writes |-> <<<<0, <<0>>>>, <<1, <<1>>>>>>],
    [eruleno |-> 61, writes |-> <<<<0, <<0>>>>, <<1, <<1>>>>>>],
    [eruleno |-> 62, writes |-> <<<<0, <<0>>>>, <<1, <<1>>>>>>],
    [eruleno |-> 63, writes |-> <<<<0, <<0>>>>, <<1, <<1>>>>>>],
    [eruleno |-> 64, writes |-> <<<<0, <<0>>>>, <<1, <<1>>>>>>],
    [eruleno |-> 65, writes |-> <<<<0, <<0>>>>>>],
    [eruleno |-> 66, writes |-> <<<<0, <<0>>>>>>],
    [eruleno |-> 67, writes |-> <<<<0, <<0>>>>>>],
    [eruleno |-> 68, writes |-> <<<<0, <<0>>>>>>],
    [eruleno |-> 69, writes |-> <<<<0, <<0>>>>>>],
    [eruleno |-> 70, writes |-> <<<<0, <<0>>>>>>],
    [eruleno |-> 71, writes |-> <<<<0, <<0>>>>>>],
    [eruleno |-> 72, writes |-> <<<<0, <<0>>>>>>],
    [eruleno |-> 73, writes |-> <<<<0, <<0>>>>, <<1, <<1>>>>>>],
    [eruleno |-> 74, writes |-> <<<<0, <<0>>>>, <<1, <<1>>>>>>],
    [eruleno |-> 75, writes |-> <<<<0, <<0>>>>, <<1, <<1>>>>>>],
    [eruleno |-> 76, writes |-> <<<<0, <<0>>>>, <<1, <<1>>>>>>],
    [eruleno |-> 77, writes |-> <<<<0, <<0>>>>, <<1, <<1>>>>>>],
    [eruleno |-> 78, writes |-> <<<<0, <<0>>>>, <<1, <<1>>>>>>],
    [eruleno |-> 79, writes |-> <<<<0, <<0>>>>, <<1, <<1>>>>>>],
    [eruleno |-> 80, writes |-> <<<<0, <<0>>>>, <<1, <<1>>>>>>],
    [eruleno |-> 81, writes |-> <<<<0, <<0, 0>>>>, <<1, <<0, 1>>>>>>],
    [eruleno |-> 82, writes |-> <<<<0, <<0, 0>>>>, <<1, <<0, 1>>>>>>],
    [eruleno |-> 83, writes |-> <<<<0, <<0, 0>>>>, <<1, <<0, 1>>>>>>],
    [eruleno |-> 84, writes |-> <<<<0, <<0, 0>>>>, <<1, <<0, 1>>>>>>],
    [eruleno |-> 85, writes |-> <<<<0, <<0, 0>>>>, <<1, <<0, 1>>>>>>],
    [eruleno |-> 86, writes |-> <<<<0, <<0, 0>>>>, <<1, <<0, 1>>>>>>],
    [eruleno |-> 87, writes |-> <<<<0, <<0, 0>>>>, <<1, <<0, 1>>>>, <<2, <<1>>>>>>],
    [eruleno |-> 88, writes |-> <<<<0, <<0, 0>>>>, <<1, <<0, 1>>>>, <<2, <<1>>>>>>],
    [eruleno |-> 89, writes |-> <<<<0, <<0, 0>>>>, <<1, <<0, 1>>>>, <<2, <<1>>>>>>],
    [eruleno |-> 90, writes |-> <<<<0, <<0, 0>>>>, <<1, <<0, 1>>>>, <<2, <<1>>>>>>],
    [eruleno |-> 91, writes |-> <<<<0, <<0, 0>>>>, <<1, <<0, 1>>>>, <<2, <<1>>>>>>],
    [eruleno |-> 92, writes |-> <<<<0, <<0, 0>>>>, <<1, <<0, 1>>>>, <<2, <<1>>>>>>],
    [eruleno |-> 93, writes |-> <<<<0, <<0, 0>>>>, <<1, <<1, 0>>>>>>],
    [eruleno |-> 94, writes |-> <<<<0, <<0, 0>>>>, <<1, <<1, 0>>>>>>],
    [eruleno |-> 95, writes |-> <<<<0, <<0, 0>>>>, <<1, <<1, 0>>>>>>],
    [eruleno |-> 96, writes |-> <<<<0, <<0, 0, 0>>>>, <<1, <<1, 0, 0>>>>>>],
    [eruleno |-> 97, writes |-> <<<<0, <<0, 0, 0>>>>, <<1, <<1, 0, 0>>>>>>],
    [eruleno |-> 98, writes |-> <<<<0, <<0>>>>, <<1, <<1>>>>>>],
    [eruleno |-> 99, writes |-> <<<<0, <<0>>>>, <<1, <<1>>>>>>],
    [eruleno |-> 100, writes |-> <<<<0, <<0>>>>, <<1, <<1, 0>>>>>>],
    [eruleno |-> 101, writes |-> <<<<0, <<0>>>>, <<1, <<1, 0>>>>>>],
    [eruleno |-> 102, writes |-> <<<<0, <<0>>>>, <<1, <<1, 0>>>>>>],
    [eruleno |-> 103, writes |-> <<<<0, <<0>>>>, <<1, <<1>>>>>>],
    [eruleno |-> 104, writes |-> <<<<0, <<0>>>>, <<1, <<1>>>>>>],
    [eruleno |-> 105, writes |-> <<<<0, <<0, 0>>>>, <<1, <<1, 0>>>>>>],
    [eruleno |-> 106, writes |-> <<<<0, <<0, 0>>>>, <<1, <<1, 0>>>>>>],
    [eruleno |-> 107, writes |-> <<<<0, <<0, 0>>>>, <<1, <<1, 0>>>>>>],
    [eruleno |-> 108, writes |-> <<<<0, <<0, 0, 0>>>>, <<1, <<1, 0, 0>>>>>>],
    [eruleno |-> 109, writes |-> <<<<0, <<0, 0, 0>>>>, <<1, <<1, 0, 0>>>>>>],
    [eruleno |-> 110, writes |-> <<<<0, <<0>>>>, <<1, <<1>>>>>>],
    [eruleno |-> 111, writes |-> <<<<0, <<0>>>>, <<1, <<1>>>>>>],
    [eruleno |-> 112, writes |-> <<<<0, <<0>>>>, <<1, <<1, 0>>>>>>],
    [eruleno |-> 113, writes |-> <<<<0, <<0>>>>, <<1, <<1, 0>>>>>>],
    [eruleno |-> 114, writes |-> <<<<0, <<0>>>>, <<1, <<1, 0>>>>>>],
    [eruleno |-> 115, writes |-> <<<<0, <<0>>>>, <<1, <<1>>>>>>],
    [eruleno |-> 116, writes |-> <<<<0, <<0>>>>, <<1, <<1>>>>>>],
    [eruleno |-> 117, writes |-> <<<<0, <<0>>>>>>],
    [eruleno |-> 118, writes |-> <<<<0, <<0, 0>>>>, <<1, <<1>>>>>>],
    [eruleno |-> 119, writes |-> <<<<0, <<0, 0>>>>, <<1, <<1>>>>>>],
    [eruleno |-> 120, writes |-> <<<<0, <<0, 0>>>>, <<1, <<1>>>>>>],
    [eruleno |-> 121, writes |-> <<<<0, <<0, 0>>>>, <<1, <<1, 0>>>>>>],
    [eruleno |-> 122, writes |-> <<<<0, <<0, 0>>>>, <<1, <<1, 0>>>>>>],
    [eruleno |-> 123, writes |-> <<<<0, <<0, 0>>>>, <<1, <<1, 0>>>>>>],
    [eruleno |-> 124, writes |-> <<<<0, <<0, 0>>>>, <<1, <<1>>>>>>],
    [eruleno |-> 125, writes |-> <<<<0, <<0, 0>>>>, <<1, <<1>>>>>>],
    [eruleno |-> 126, writes |-> <<<<0, <<0, 0>>>>, <<1, <<1, 0>>>>>>],
    [eruleno |-> 127, writes |-> <<<<0, <<0, 0>>>>, <<1, <<1, 0>>>>>>],
    [eruleno |-> 128, writes |-> <<<<0, <<0>>>>, <<1, <<1, 0>>>>>>],
    [eruleno |-> 129, writes |-> <<<<0, <<0>>>>, <<1, <<1, 0>>>>>>],
    [eruleno |-> 130, writes |-> <<<<0, <<0>>>>, <<1, <<1, 0>>>>>>],
    [eruleno |-> 131, writes |-> <<<<0, <<0>>>>, <<1, <<1, 0>>>>>>],
    [eruleno |-> 132, writes |-> <<<<0, <<0>>>>, <<1, <<1, 0>>>>>>],
    [eruleno |-> 133, writes |-> <<<<0, <<0>>>>, <<1, <<1>>>>>>],
    [eruleno |-> 134, writes |-> <<<<0, <<0>>>>, <<1, <<1>>>>>>],
    [eruleno |-> 135, writes |-> <<<<0, <<0>>>>, <<1, <<1>>>>>>],
    [eruleno |-> 136, writes |-> <<<<0, <<0>>>>, <<1, <<1>>>>>>],
    [eruleno |-> 137, writes |-> <<<<0, <<0>>>>, <<1, <<1>>>>>>],
    [eruleno |-> 138, writes |-> <<<<0, <<0>>>>, <<1, <<1>>>>>>],
    [eruleno |-> 139, writes |-> <<<<0, <<0, 0>>>>, <<1, <<1>>>>>>],
    [eruleno |-> 140, writes |-> <<<<0, <<0, 0>>>>, <<1, <<1>>>>>>],
    [eruleno |-> 141, writes |-> <<<<0, <<0, 0>>>>, <<1, <<1, 0>>>>>>],
    [eruleno |-> 142, writes |-> <<<<0, <<0, 0>>>>, <<1, <<1, 0>>>>>>],
    [eruleno |-> 143, writes |-> <<<<0, <<0, 0>>>>, <<1, <<1>>>>>>],
    [eruleno |-> 144, writes |-> <<<<0, <<0, 0>>>>, <<1, <<1>>>>>>],
    [eruleno |-> 145, writes |-> <<<<0, <<0, 0>>>>, <<1, <<1, 0>>>>>>],
    [eruleno |-> 146, writes |-> <<<<0, <<0, 0>>>>, <<1, <<1, 0>>>>>>],
    [eruleno |-> 147, writes |-> <<<<0, <<0>>>>, <<1, <<1, 0>>>>>>],
    [eruleno |-> 148, writes |-> <<<<0, <<0>>>>, <<1, <<1, 0>>>>>>],
    [eruleno |-> 149, writes |-> <<<<0, <<0>>>>, <<1, <<1, 0>>>>>>],
    [eruleno |-> 150, writes |-> <<<<0, <<0>>>>, <<1, <<1, 0>>>>>>],
    [eruleno |-> 151, writes |-> <<<<0, <<0>>>>, <<1, <<1>>>>>>],
    [eruleno |-> 152, writes |-> <<<<0, <<0>>>>, <<1, <<1>>>>>>],
    [eruleno |-> 153, writes |-> <<<<0, <<0>>>>, <<1, <<1>>>>>>],
    [eruleno |-> 154, writes |-> <<<<0, <<0>>>>, <<1, <<1>>>>>>],
    [eruleno |-> 155, writes |-> <<<<0, <<0>>>>>>],
    [eruleno |-> 156, writes |-> <<<<0, <<0>>>>, <<1, <<1>>>>>>],
    [eruleno |-> 157, writes |-> <<<<0, <<0>>>>, <<1, <<1>>>>>>],
    [eruleno |-> 158, writes |-> <<<<0, <<0>>>>, <<1, <<1>>>>>>],
    [eruleno |-> 159, writes |-> <<<<0, <<0>>>>, <<1, <<1>>>>>>],
    [eruleno |-> 160, writes |-> <<<<0, <<0>>>>, <<1, <<1>>>>>>],
    [eruleno |-> 161, writes |-> <<<<0, <<0>>>>, <<1, <<1>>>>>>],
    [eruleno |-> 162, writes |-> <<<<0, <<0>>>>, <<1, <<1>>>>>>],
    [eruleno |-> 163, writes |-> <<<<0, <<0>>>>, <<1, <<1>>>>>>],
    [eruleno |-> 164, writes |-> <<<<0, <<0>>>>, <<1, <<1>>>>>>],
    [eruleno |-> 165, writes |-> <<<<0, <<0>>>>, <<1, <<1>>>>>>],
    [eruleno |-> 166, writes |-> <<<<0, <<0>>>>, <<1, <<1>>>>>>],
    [eruleno |-> 167, writes |-> <<<<0, <<0>>>>, <<1, <<1>>>>>>],
    [eruleno |-> 168, writes |-> <<<<0, <<0, 0>>>>, <<1, <<1, 0>>>>>>],
    [eruleno |-> 169, writes |-> <<<<0, <<0, 0>>>>, <<1, <<1, 0>>>>>>],
    [eruleno |-> 170, writes |-> <<<<0, <<0>>>>, <<1, <<1, 0>>>>>>],
    [eruleno |-> 171, writes |-> <<<<0, <<0>>>>, <<1, <<1, 0>>>>>>],
    [eruleno |-> 172, writes |-> <<<<0, <<0>>>>, <<1, <<1>>>>>>],
    [eruleno |-> 173, writes |-> <<<<0, <<0>>>>, <<1, <<1>>>>>>],
    [eruleno |-> 174, writes |-> <<<<0, <<0>>>>, <<1, <<1>>>>>>],
    [eruleno |-> 175, writes |-> <<<<0, <<0>>>>, <<1, <<1>>>>>>],
    [eruleno |-> 176, writes |-> <<<<0, <<0, 0>>>>, <<1, <<1, 0>>>>>>],
    [eruleno |-> 177, writes |-> <<<<0, <<0, 0>>>>, <<1, <<1, 0>>>>>>],
    [eruleno |-> 178, writes |-> <<<<0, <<0>>>>, <<1, <<1, 0>>>>>>],
    [eruleno |-> 179, writes |-> <<<<0, <<0>>>>, <<1, <<1, 0>>>>>>],
    [eruleno |-> 180, writes |-> <<<<0, <<0, 0>>>>, <<1, <<1, 0>>>>>>],
    [eruleno |-> 181, writes |-> <<<<0, <<0, 0>>>>, <<1, <<1, 0>>>>>>],
    [eruleno |-> 182, writes |-> <<<<0, <<0>>>>, <<1, <<1>>>>>>],
    [eruleno |-> 183, writes |-> <<<<0, <<0>>>>, <<1, <<1>>>>>>],
    [eruleno |-> 184, writes |-> <<<<0, <<0>>>>, <<1, <<1, 0>>>>>>],
    [eruleno |-> 185, writes |-> <<<<0, <<0>>>>, <<1, <<1, 0>>>>>>],
    [eruleno |-> 186, writes |-> <<<<0, <<0, 0>>>>, <<1, <<1, 0>>>>>>],
    [eruleno |-> 187, writes |-> <<<<0, <<0, 0>>>>, <<1, <<1, 0>>>>>>],
    [eruleno |-> 188, writes |-> <<<<0, <<0>>>>, <<1, <<1>>>>>>],
    [eruleno |-> 189, writes |-> <<<<0, <<0>>>>, <<1, <<1>>>>>>],
    [eruleno |-> 190, writes |-> <<<<0, <<0>>>>, <<1, <<1, 0>>>>>>],
    [eruleno |-> 191, writes |-> <<<<0, <<0>>>>, <<1, <<1, 0>>>>>>],
    [eruleno |-> 192, writes |-> <<<<0, <<0, 0>>>>, <<1, <<1, 0>>>>>>],
    [eruleno |-> 193, writes |-> <<<<0, <<0, 0>>>>, <<1, <<1, 0>>>>>>],
    [eruleno |-> 194, writes |-> <<<<0, <<0>>>>, <<1, <<1>>>>>>],
    [eruleno |-> 195, writes |-> <<<<0, <<0>>>>, <<1, <<1>>>>>>],
    [eruleno |-> 196, writes |-> <<<<0, <<0>>>>, <<1, <<1, 0>>>>>>],
    [eruleno |-> 197, writes |-> <<<<0, <<0>>>>, <<1, <<1, 0>>>>>>],
    [eruleno |-> 198, writes |-> <<<<0, <<0>>>>>>],
    [eruleno |-> 199, writes |-> <<<<0, <<0>>>>>>],
    [eruleno |-> 200, writes |-> <<<<0, <<0>>>>, <<1, <<1>>>>>>],
    [eruleno |-> 201, writes |-> <<<<0, <<0>>>>, <<1, <<1>>>>>>],
    [eruleno |-> 202, writes |-> <<<<0, <<0, 0>>>>, <<1, <<1, 0>>>>>>],
    [eruleno |-> 203, writes |-> <<<<0, <<0, 0>>>>, <<1, <<1, 0>>>>>>],
    [eruleno |-> 204, writes |-> <<<<0, <<0>>>>, <<1, <<1, 0>>>>>>],
    [eruleno |-> 205, writes |-> <<<<0, <<0>>>>, <<1, <<1, 0>>>>>>],
    [eruleno |-> 206, writes |-> <<<<0, <<0, 0>>>>, <<1, <<1, 0>>>>>>],
    [eruleno |-> 207, writes |-> <<<<0, <<0, 0>>>>, <<1, <<1, 0>>>>>>],
    [eruleno |-> 208, writes |-> <<<<0, <<0>>>>, <<1, <<1>>>>>>],
    [eruleno |-> 209, writes |-> <<<<0, <<0>>>>, <<1, <<1>>>>>>],
    [eruleno |-> 210, writes |-> <<<<0, <<0, 0>>>>, <<1, <<1>>>>>>],
    [eruleno |-> 211, writes |-> <<<<0, <<0, 0>>>>, <<1, <<1>>>>>>],
    [eruleno |-> 212, writes |-> <<<<0, <<0>>>>, <<1, <<1, 0>>>>>>],
    [eruleno |-> 213, writes |-> <<<<0, <<0>>>>, <<1, <<1, 0>>>>>>],
    [eruleno |-> 214, writes |-> <<<<0, <<0>>>>, <<1, <<1>>>>>>],
    [eruleno |-> 215, writes |-> <<<<0, <<0>>>>, <<1, <<1>>>>>>],
    [eruleno |-> 216, writes |-> <<<<0, <<0, 0>>>>, <<1, <<1, 0>>>>>>],
    [eruleno |-> 217, writes |-> <<<<0, <<0, 0>>>>, <<1, <<1, 0>>>>>>],
    [eruleno |-> 218, writes |-> <<<<0, <<0>>>>, <<1, <<1, 0>>>>>>],
    [eruleno |-> 219, writes |-> <<<<0, <<0>>>>, <<1, <<1, 0>>>>>>],
    [eruleno |-> 220, writes |-> <<<<0, <<0, 0>>>>, <<1, <<1, 0>>>>>>],
    [eruleno |-> 221, writes |-> <<<<0, <<0, 0>>>>, <<1, <<1, 0>>>>>>],
    [eruleno |-> 222, writes |-> <<<<0, <<0>>>>, <<1, <<1>>>>>>],
    [eruleno |-> 223, writes |-> <<<<0, <<0>>>>, <<1, <<1>>>>>>],
    [eruleno |-> 224, writes |-> <<<<0, <<0, 0>>>>, <<1, <<1>>>>>>],
    [eruleno |-> 225, writes |-> <<<<0, <<0, 0>>>>, <<1, <<1>>>>>>],
    [eruleno |-> 226, writes |-> <<<<0, <<0>>>>, <<1, <<1, 0>>>>>>],
    [eruleno |-> 227, writes |-> <<<<0, <<0>>>>, <<1, <<1, 0>>>>>>],
    [eruleno |-> 228, writes |-> <<<<0, <<0>>>>, <<1, <<1>>>>>>],
    [eruleno |-> 229, writes |-> <<<<0, <<0>>>>, <<1, <<1>>>>>>],
    [eruleno |-> 230, writes |-> <<<<0, <<0, 0>>>>, <<1, <<1, 0>>>>>>],
    [eruleno |-> 231, writes |-> <<<<0, <<0, 0>>>>, <<1, <<1, 0>>>>>>],
    [eruleno |-> 232, writes |-> <<<<0, <<0>>>>, <<1, <<1, 0>>>>>>],
    [eruleno |-> 233, writes |-> <<<<0, <<0>>>>, <<1, <<1, 0>>>>>>],
    [eruleno |-> 234, writes |-> <<<<0, <<0, 0>>>>, <<1, <<1, 0>>>>>>],
    [eruleno |-> 235, writes |-> <<<<0, <<0, 0>>>>, <<1, <<1, 0>>>>>>],
    [eruleno |-> 236, writes |-> <<<<0, <<0>>>>, <<1, <<1>>>>>>],
    [eruleno |-> 237, writes |-> <<<<0, <<0>>>>, <<1, <<1>>>>>>],
    [eruleno |-> 238, writes |-> <<<<0, <<0, 0>>>>, <<1, <<1>>>>>>],
    [eruleno |-> 239, writes |-> <<<<0, <<0, 0>>>>, <<1, <<1>>>>>>],
    [eruleno |-> 240, writes |-> <<<<0, <<0>>>>, <<1, <<1, 0>>>>>>],
    [eruleno |-> 241, writes |-> <<<<0, <<0>>>>, <<1, <<1, 0>>>>>>],
    [eruleno |-> 242, writes |-> <<<<0, <<0>>>>>>],
    [eruleno |-> 243, writes |-> <<<<0, <<0>>>>>>],
    [eruleno |-> 244, writes |-> <<<<0, <<0>>>>, <<1, <<1>>>>>>],
    [eruleno |-> 245, writes |-> <<<<0, <<0>>>>, <<1, <<1>>>>>>],
    [eruleno |-> 246, writes |-> <<<<0, <<0>>>>, <<1, <<1>>>>>>],
    [eruleno |-> 247, writes |-> <<<<0, <<0>>>>, <<1, <<1>>>>>>],
    [eruleno |-> 248, writes |-> <<<<0, <<0>>>>, <<1, <<1>>>>>>],
    [eruleno |-> 249, writes |-> <<<<0, <<0>>>>, <<1, <<1>>>>>>],
    [eruleno |-> 250, writes |-> <<<<0, <<0>>>>, <<1, <<1>>>>>>],
    [eruleno |-> 251, writes |-> <<<<0, <<0>>>>, <<1, <<1>>>>>>],
    [eruleno |-> 252, writes |-> <<<<0, <<0>>>>, <<1, <<1>>>>>>],
    [eruleno |-> 253, writes |-> <<<<0, <<0>>>>, <<1, <<1>>>>>>],
    [eruleno |-> 254, writes |-> <<<<0, <<0>>>>, <<1, <<1>>>>>>],
    [eruleno |-> 255, writes |-> <<<<0, <<0>>>>, <<1, <<1>>>>>>],
    [eruleno |-> 256, writes |-> <<<<0, <<0>>>>, <<1, <<1>>>>>>],
    [eruleno |-> 257, writes |-> <<<<0, <<0>>>>, <<1, <<1>>>>>>],
    [eruleno |-> 258, writes |-> <<<<0, <<0>>>>, <<1, <<1>>>>>>],
    [eruleno |-> 259, writes |-> <<<<0, <<0>>>>, <<1, <<1>>>>>>],
    [eruleno |-> 260, writes |-> <<<<0, <<0>>>>>>],
    [eruleno |-> 261, writes |-> <<<<0, <<0>>>>>>],
    [eruleno |-> 262, writes |-> <<<<0, <<0>>>>>>],
    [eruleno |-> 263, writes |-> <<<<0, <<0>>>>>>],
    [eruleno |-> 264, writes |-> <<<<0, <<0>>>>>>],
    [eruleno |-> 265, writes |-> <<<<0, <<0>>>>>>],
    [eruleno |-> 266, writes |-> <<<<0, <<0>>>>>>],
    [eruleno |-> 267, writes |-> <<<<0, <<0>>>>>>],
    [eruleno |-> 268, writes |-> <<<<0, <<0, 0>>>>>>],
    [eruleno |-> 269, writes |-> <<<<0, <<0, 0>>>>>>],
    [eruleno |-> 270, writes |-> <<<<0, <<0>>>>>>],
    [eruleno |-> 271, writes |-> <<<<0, <<0>>>>>>],
    [eruleno |-> 272, writes |-> <<<<0, <<0>>>>>>],
    [eruleno |-> 273, writes |-> <<<<0, <<0>>>>>>],
    [eruleno |-> 274, writes |-> <<<<0, <<0>>>>>>],
    [eruleno |-> 275, writes |-> <<<<0, <<0>>>>>>],
    [eruleno |-> 276, writes |-> <<<<0, <<0>>>>>>],
    [eruleno |-> 277, writes |-> <<<<0, <<0>>>>>>],
    [eruleno |-> 278, writes |-> <<>>],
    [eruleno |-> 279, writes |-> <<<<0, <<0>>>>>>],
    [eruleno |-> 280, writes |-> <<<<0, <<0>>>>>>],
    [eruleno |-> 281, writes |-> <<<<0, <<0>>>>, <<1, <<1>>>>>>],
    [eruleno |-> 282, writes |-> <<<<0, <<0>>>>, <<1, <<1>>>>>>],
    [eruleno |-> 283, writes |-> <<<<0, <<0>>>>, <<1, <<1, 0>>>>>>],
    [eruleno |-> 284, writes |-> <<<<0, <<0>>>>, <<1, <<1, 0>>>>>>],
    [eruleno |-> 285, writes |-> <<<<0, <<0>>>>, <<1, <<1>>>>>>],
    [eruleno |-> 286, writes |-> <<<<0, <<0>>>>, <<1, <<1>>>>>>],
    [eruleno |-> 287, writes |-> <<<<0, <<0>>>>, <<1, <<1, 0>>>>>>],
    [eruleno |-> 288, writes |-> <<<<0, <<0>>>>, <<1, <<1, 0>>>>>>],
    [eruleno |-> 289, writes |-> <<<<0, <<0>>>>, <<1, <<1>>>>>>],
    [eruleno |-> 290, writes |-> <<<<0, <<0>>>>, <<1, <<1, 0>>>>>>],
    [eruleno |-> 291, writes |-> <<<<0, <<0>>>>, <<1, <<1>>>>>>],
    [eruleno |-> 292, writes |-> <<<<0, <<0>>>>, <<1, <<1, 0>>>>>>],
    [eruleno |-> 293, writes |-> <<<<0, <<0>>>>, <<1, <<1>>>>>>],
    [eruleno |-> 294, writes |-> <<<<0, <<0>>>>, <<1, <<1, 0>>>>>>],
    [eruleno |-> 295, writes |-> <<<<0, <<0>>>>, <<1, <<1>>>>>>],
    [eruleno |-> 296, writes |-> <<<<0, <<0>>>>, <<1, <<1, 0>>>>>>],
    [eruleno |-> 297, writes |-> <<<<0, <<0>>>>, <<1, <<1>>>>>>],
    [eruleno |-> 298, writes |-> <<<<0, <<0>>>>, <<1, <<1, 0>>>>>>],
    [eruleno |-> 299, writes |-> <<<<0, <<0>>>>, <<1, <<1>>>>>>],
    [eruleno |-> 300, writes |-> <<<<0, <<0>>>>, <<1, <<1, 0>>>>>>],
    [eruleno |-> 301, writes |-> <<<<0, <<0>>>>, <<1, <<1>>>>>>],
    [eruleno |-> 302, writes |-> <<<<0, <<0>>>>, <<1, <<1, 0>>>>>>],
    [eruleno |-> 303, writes |-> <<<<0, <<0>>>>, <<1, <<1>>>>>>],
    [eruleno |-> 304, writes |-> <<<<0, <<0>>>>, <<1, <<1, 0>>>>>>],
    [eruleno |-> 305, writes |-> <<<<0, <<0, 0>>>>, <<1, <<1, 0>>>>>>],
    [eruleno |-> 306, writes |-> <<<<0, <<0, 0>>>>, <<1, <<1, 0>>>>>>],
    [eruleno |-> 307, writes |-> <<<<0, <<0>>>>, <<1, <<1, 0>>>>>>],
    [eruleno |-> 308, writes |-> <<<<0, <<0>>>>, <<1, <<1, 0>>>>>>],
    [eruleno |-> 309, writes |-> <<<<0, <<0>>>>, <<1, <<1>>>>>>],
    [eruleno |-> 310, writes |-> <<<<0, <<0>>>>, <<1, <<1>>>>>>],
    [eruleno |-> 311, writes |-> <<<<0, <<0, 0>>>>, <<1, <<1, 0>>>>>>],
    [eruleno |-> 312, writes |-> <<<<0, <<0, 0>>>>, <<1, <<1, 0>>>>>>],
    [eruleno |-> 313, writes |-> <<<<0, <<0>>>>, <<1, <<1, 0>>>>>>],
    [eruleno |-> 314, writes |-> <<<<0, <<0>>>>, <<1, <<1, 0>>>>>>],
    [eruleno |-> 315, writes |-> <<<<0, <<0>>>>, <<1, <<1>>>>>>],
    [eruleno |-> 316, writes |-> <<<<0, <<0>>>>, <<1, <<1>>>>>>],
    [eruleno |-> 317, writes |-> <<<<0, <<0, 0>>>>, <<1, <<1, 0>>>>>>],
    [eruleno |-> 318, writes |-> <<<<0, <<0, 0>>>>, <<1, <<1, 0>>>>>>],
    [eruleno |-> 319, writes |-> <<<<0, <<0>>>>, <<1, <<1, 0>>>>>>],
    [eruleno |-> 320, writes |-> <<<<0, <<0>>>>, <<1, <<1, 0>>>>>>],
    [eruleno |-> 321, writes |-> <<<<0, <<0>>>>, <<1, <<1>>>>>>],
    [eruleno |-> 322, writes |-> <<<<0, <<0>>>>, <<1, <<1>>>>>>],
    [eruleno |-> 323, writes |-> <<<<0, <<0, 0>>>>, <<1, <<1, 0>>>>>>],
    [eruleno |-> 324, writes |-> <<<<0, <<0, 0>>>>, <<1, <<1, 0>>>>>>],
    [eruleno |-> 325, writes |-> <<<<0, <<0>>>>, <<1, <<1, 0>>>>>>],
    [eruleno |-> 326, writes |-> <<<<0, <<0>>>>, <<1, <<1, 0>>>>>>],
    [eruleno |-> 327, writes |-> <<<<0, <<0>>>>, <<1, <<1>>>>>>],
    [eruleno |-> 328, writes |-> <<<<0, <<0>>>>, <<1, <<1>>>>>>],
    [eruleno |-> 329, writes |-> <<<<0, <<0, 0>>>>, <<1, <<1, 0>>>>>>],
    [eruleno |-> 330, writes |-> <<<<0, <<0, 0>>>>, <<1, <<1, 0>>>>>>],
    [eruleno |-> 331, writes |-> <<<<0, <<0>>>>, <<1, <<1, 0>>>>>>],
    [eruleno |-> 332, writes |-> <<<<0, <<0>>>>, <<1, <<1, 0>>>>>>],
    [eruleno |-> 333, writes |-> <<<<0, <<0>>>>, <<1, <<1>>>>>>],
    [eruleno |-> 334, writes |-> <<<<0, <<0>>>>, <<1, <<1>>>>>>],
    [eruleno |-> 335, writes |-> <<<<0, <<0, 0>>>>, <<1, <<1, 0>>>>>>],
    [eruleno |-> 336, writes |-> <<<<0, <<0, 0>>>>, <<1, <<1, 0>>>>>>],
    [eruleno |-> 337, writes |-> <<<<0, <<0>>>>, <<1, <<1, 0>>>>>>],
    [eruleno |-> 338, writes |-> <<<<0, <<0>>>>, <<1, <<1, 0>>>>>>],
    [eruleno |-> 339, writes |-> <<<<0, <<0>>>>, <<1, <<1>>>>>>],
    [eruleno |-> 340, writes |-> <<<<0, <<0>>>>, <<1, <<1>>>>>>],
    [eruleno |-> 341, writes |-> <<<<0, <<0, 0>>>>, <<1, <<1>>>>>>],
    [eruleno |-> 342, writes |-> <<<<0, <<0, 0>>>>, <<1, <<1>>>>>>],
    [eruleno |-> 343, writes |-> <<<<0, <<0>>>>, <<1, <<1>>>>>>],
    [eruleno |-> 344, writes |-> <<<<0, <<0>>>>, <<1, <<1>>>>>>],
    [eruleno |-> 345, writes |-> <<<<0, <<0, 0>>>>, <<1, <<1>>>>>>],
    [eruleno |-> 346, writes |-> <<<<0, <<0, 0>>>>, <<1, <<1>>>>>>],
    [eruleno |-> 347, writes |-> <<<<0, <<0>>>>, <<1, <<1>>>>>>],
    [eruleno |-> 348, writes |-> <<<<0, <<0>>>>, <<1, <<1>>>>>>],
    [eruleno |-> 349, writes |-> <<<<0, <<0, 0>>>>, <<1, <<1>>>>>>],
    [eruleno |-> 350, writes |-> <<<<0, <<0, 0>>>>, <<1, <<1>>>>>>],
    [eruleno |-> 351, writes |-> <<<<0, <<0>>>>, <<1, <<1>>>>>>],
    [eruleno |-> 352, writes |-> <<<<0, <<0>>>>, <<1, <<1>>>>>>],
    [eruleno |-> 353, writes |-> <<<<0, <<0, 0>>>>, <<1, <<1>>>>>>],
    [eruleno |-> 354, writes |-> <<<<0, <<0, 0>>>>, <<1, <<1>>>>>>],
    [eruleno |-> 355, writes |-> <<<<0, <<0>>>>, <<1, <<1>>>>>>],
    [eruleno |-> 356, writes |-> <<<<0, <<0>>>>, <<1, <<1>>>>>>],
    [eruleno |-> 357, writes |-> <<<<0, <<0, 0>>>>, <<1, <<1>>>>>>],
    [eruleno |-> 358, writes |-> <<<<0, <<0, 0>>>>, <<1, <<1>>>>>>],
    [eruleno |-> 359, writes |-> <<<<0, <<0>>>>, <<1, <<1>>>>>>],
    [eruleno |-> 360, writes |-> <<<<0, <<0>>>>, <<1, <<1>>>>>>],
    [eruleno |-> 361, writes |-> <<<<0, <<0, 0>>>>, <<1, <<1>>>>>>],
    [eruleno |-> 362, writes |-> <<<<0, <<0, 0>>>>, <<1, <<1>>>>>>],
    [eruleno |-> 363, writes |-> <<<<0, <<0>>>>, <<1, <<1>>>>>>],
    [eruleno |-> 364, writes |-> <<<<0, <<0>>>>, <<1, <<1>>>>>>],
    [eruleno |-> 365, writes |-> <<<<0, <<0>>>>>>],
    [eruleno |-> 366, writes |-> <<<<0, <<0>>>>>>],
    [eruleno |-> 367, writes |-> <<<<0, <<0>>>>>>],
    [eruleno |-> 368, writes |-> <<<<0, <<0>>>>>>],
    [eruleno |-> 369, writes |-> <<<<0, <<0>>>>>>],
    [eruleno |-> 370, writes |-> <<<<0, <<0>>>>>>],
    [eruleno |-> 371, writes |-> <<<<0, <<0>>>>>>],
    [eruleno |-> 372, writes |-> <<<<0, <<0>>>>>>],
    [eruleno |-> 373, writes |-> <<<<0, <<0>>>>>>],
    [eruleno |-> 374, writes |-> <<<<0, <<0>>>>>>],
    [eruleno |-> 375, writes |-> <<<<0, <<0>>>>>>],
    [eruleno |-> 376, writes |-> <<<<0, <<0>>>>>>],
    [eruleno |-> 377, writes |-> <<<<0, <<0>>>>>>],
    [eruleno |-> 378, writes |-> <<<<0, <<0>>>>>>],
    [eruleno |-> 379, writes |-> <<<<0, <<0>>>>>>],
    [eruleno |-> 380, writes |-> <<<<0, <<0>>>>>>],
    [eruleno |-> 381, writes |-> <<<<0, <<0>>>>>>],
    [eruleno |-> 382, writes |-> <<<<0, <<0>>>>>>],
    [eruleno |-> 383, writes |-> <<<<0, <<0>>>>>>],
    [eruleno |-> 384, writes |-> <<<<0, <<0>>>>>>],
    [eruleno |-> 385, writes |-> <<<<0, <<0>>>>>>],
    [eruleno |-> 386, writes |-> <<<<0, <<0>>>>>>],
    [eruleno |-> 387, writes |-> <<<<0, <<0>>>>>>],
    [eruleno |-> 388, writes |-> <<<<0, <<0>>>>>>],
    [eruleno |-> 389, writes |-> <<<<0, <<0>>>>>>],
    [eruleno |-> 390, writes |-> <<>>],
    [eruleno |-> 391, writes |-> <<<<0, <<0>>>>>>],
    [eruleno |-> 392, writes |-> <<<<0, <<0>>>>>>],
    [eruleno |-> 393, writes |-> <<<<0, <<0>>>>>>],
    [eruleno |-> 394, writes |-> <<<<0, <<0>>>>>>],
    [eruleno |-> 395, writes |-> <<<<0, <<0>>>>>>],
    [eruleno |-> 396, writes |-> <<<<0, <<0>>>>>>],
    [eruleno |-> 397, writes |-> <<<<0, <<0>>>>>>],
    [eruleno |-> 398, writes |-> <<<<0, <<0>>>>>>],
    [eruleno |-> 399, writes |-> <<<<0, <<>>>>>>]
  >>

(* ---------------------------------------------------------------------- *)
(* Trees                                                                  *)
(* ---------------------------------------------------------------------- *)
NULL == 0

(* LEFT_CHILD / RIGHT_CHILD applied along a path (0 = left, 1 = right),    *)
(* NULL when a node on the way has no such child                           *)
RECURSIVE NodeAt(_, _, _)
NodeAt(ns, a, path) ==
  IF a = NULL THEN NULL
  ELSE IF path = <<>> THEN a
  ELSE NodeAt(ns, ns[a].kids[Head(path) + 1], Tail(path))

(* ---------------------------------------------------------------------- *)
(* struct _state                                                          *)
(* ---------------------------------------------------------------------- *)
(* widths of the bit fields rule._stmt .. rule._faddr *)
RuleBits == <<8, 8, 2, 2, 2, 2, 3, 3>>

RECURSIVE Pow2(_)
Pow2(n) == IF n = 0 THEN 1 ELSE 2 * Pow2(n - 1)

(* a value stored in a short *)
ToShort(v) ==
  LET m == v % 65536 IN IF m >= 32768 THEN m - 65536 ELSE m

(* a value stored in the bit field of nonterminal nt *)
ToField(nt, v) == v % Pow2(RuleBits[nt])

NoState == [alloc |-> FALSE, cost |-> [nt \in NTs |-> 0], rule |-> [nt \in NTs |-> 0]]

SetCost(p, nt, c, r) ==
  [p EXCEPT !.cost[nt] = ToShort(c), !.rule[nt] = ToField(nt, r)]

(* ---------------------------------------------------------------------- *)
(* The closure functions                                                  *)
(* ---------------------------------------------------------------------- *)
_closure_reg(p, c) ==
  IF c + 0 < p.cost[_stmt_NT] THEN SetCost(p, _stmt_NT, c + 0, 133) ELSE p

(* _closure_con2 without its call of _closure_reg *)
_closure_con2_flat(p, c) ==
  IF c + 1 < p.cost[_reg_NT] THEN SetCost(p, _reg_NT, c + 1, 25) ELSE p

_closure_con2(p, c) ==
  IF c + 1 < p.cost[_reg_NT]
  THEN _closure_reg(SetCost(p, _reg_NT, c + 1, 25), c + 1)
  ELSE p

_closure_con1(p, c) ==
  IF c + 1 < p.cost[_reg_NT]
  THEN _closure_reg(SetCost(p, _reg_NT, c + 1, 24), c + 1)
  ELSE p

_closure_con4(p, c) ==
  IF c + 3 < p.cost[_reg_NT]
  THEN _closure_reg(SetCost(p, _reg_NT, c + 3, 26), c + 3)
  ELSE p

(* a closure function that does nothing *)
_closure_faddr_none(p, c) == p

_closure_faddr(p, c) ==
  IF c + 0 < p.cost[_addr_NT] THEN SetCost(p, _addr_NT, c + 0, 3) ELSE p

(* the closure call that follows the assignment of cost[nt] in _label *)
Closure(p, nt, c) ==
  CASE nt = _reg_NT -> _closure_reg(p, c)
    [] nt = _con2_NT -> _closure_con2(p, c)
    [] nt = _con1_NT -> _closure_con1(p, c)
    [] nt = _con4_NT -> _closure_con4(p, c)
    [] nt = _faddr_NT -> _closure_faddr(p, c)
    [] OTHER -> p

(* ---------------------------------------------------------------------- *)
(* _label                                                                 *)
(* ---------------------------------------------------------------------- *)
LabelOps == {_label_cases[i].op : i \in 1..Len(_label_cases)}

CaseOf == [o \in LabelOps |->
             _label_cases[CHOOSE i \in 1..Len(_label_cases) : _label_cases[i].op = o]]

(* range(p, lo, hi) *)
range(ns, a, lo, hi) ==
  IF ns[a].v >= lo /\ ns[a].v <= hi THEN 0 ELSE LBURG_MAX

(* move(a) of the code generator: marks the node as a copy and costs 1 *)
move(a) == 1

(* mayrecalc(a): the node reads a temporary holding a common subexpression *)
(* that may be recomputed                                                  *)
mayrecalc(ns, a) == ns[a].cse # NULL

(* the ->op tests of rule r, left to right *)
CondHolds(ns, a, r) ==
  \A i \in 1..Len(r.cond) :
    LET n == NodeAt(ns, a, r.cond[i][1]) IN n # NULL /\ ns[n].op = r.cond[i][2]

RECURSIVE SumTerms(_, _, _, _, _)
SumTerms(ns, xs, a, terms, i) ==
  IF i > Len(terms) THEN 0
  ELSE xs[NodeAt(ns, a, terms[i][1])].cost[terms[i][2]]
       + SumTerms(ns, xs, a, terms, i + 1)

(* the cost of a rule without the costs of the subtrees it consumes *)
RuleCost_own(ns, xs, a, r) ==
  r.k
  + (IF r.mv THEN move(a) ELSE 0)
  + (IF r.rng # <<>> THEN range(ns, a, r.rng[1], r.rng[2]) ELSE 0)

(* the int c that rule r computes *)
RuleCost(ns, xs, a, r) ==
  SumTerms(ns, xs, a, r.term, 1) + r.k
  + (IF r.mv THEN move(a) ELSE 0)
  + (IF r.rng # <<>> THEN range(ns, a, r.rng[1], r.rng[2]) ELSE 0)

(* the copy made when mayrecalc(a) holds: every cost that is 0 in the      *)
(* record q of the common subexpression is taken over with its rule        *)
RecalcCopy(p, q) ==
  [p EXCEPT !.cost = [nt \in NTs |-> IF q.cost[nt] = 0 THEN 0 ELSE p.cost[nt]],
            !.rule = [nt \in NTs |-> IF q.cost[nt] = 0 THEN q.rule[nt] ELSE p.rule[nt]]]

(* a rule that also replaces the record when its cost equals the recorded  *)
(* one                                                                     *)
ApplyRule_le(ns, xs, a, p, r) ==
  IF ~CondHolds(ns, a, r) THEN p
  ELSE LET p1 == IF r.recalc /\ mayrecalc(ns, a)
                 THEN RecalcCopy(p, xs[ns[a].cse]) ELSE p
           c == RuleCost(ns, xs, a, r)
       IN IF c <= p1.cost[r.nt]
          THEN Closure(SetCost(p1, r.nt, c, r.irule), r.nt, c)
          ELSE p1

(* a rule that records its cost without comparing it                       *)
ApplyRule_any(ns, xs, a, p, r) ==
  IF ~CondHolds(ns, a, r) THEN p
  ELSE LET p1 == IF r.recalc /\ mayrecalc(ns, a)
                 THEN RecalcCopy(p, xs[ns[a].cse]) ELSE p
           c == RuleCost(ns, xs, a, r)
       IN Closure(SetCost(p1, r.nt, c, r.irule), r.nt, c)

(* a rule whose total is narrowed to the 16 bits of the field before it is *)
(* compared                                                                *)
ApplyRule_narrowed(ns, xs, a, p, r) ==
  IF ~CondHolds(ns, a, r) THEN p
  ELSE LET p1 == IF r.recalc /\ mayrecalc(ns, a)
                 THEN RecalcCopy(p, xs[ns[a].cse]) ELSE p
           c == ToShort(RuleCost(ns, xs, a, r))
       IN IF c < p1.cost[r.nt]
          THEN Closure(SetCost(p1, r.nt, c, r.irule), r.nt, c)
          ELSE p1

(* one rule of a case: the tests, the cost, the comparison, the            *)
(* assignments and the closure call                                        *)
ApplyRule(ns, xs, a, p, r) ==
  IF ~CondHolds(ns, a, r) THEN p
  ELSE LET p1 == IF r.recalc /\ mayrecalc(ns, a)
                 THEN RecalcCopy(p, xs[ns[a].cse]) ELSE p
           c == RuleCost(ns, xs, a, r)
       IN IF c < p1.cost[r.nt]
          THEN Closure(SetCost(p1, r.nt, c, r.irule), r.nt, c)
          ELSE p1

(* the rules of a case in the order the code evaluates them *)
RECURSIVE ApplyRules(_, _, _, _, _, _)
ApplyRules(ns, xs, a, p, rules, i) ==
  IF i > Len(rules) THEN p
  ELSE ApplyRules(ns, xs, a, ApplyRule(ns, xs, a, p, rules[i]), rules, i + 1)

(* a record whose costs start at 0 *)
NewState_zero(j) ==
  [alloc |-> TRUE,
   cost |-> [nt \in NTs |-> 0],
   rule |-> [nt \in NTs |-> IF nt = _stmt_NT THEN 0 ELSE ToField(nt, j)]]

(* the record _label allocates: rule._stmt cleared, every cost infinite,   *)
(* the other rule fields as allocate() left them                           *)
NewState(j) ==
  [alloc |-> TRUE,
   cost |-> [nt \in NTs |-> MaxCost],
   rule |-> [nt \in NTs |-> IF nt = _stmt_NT THEN 0 ELSE ToField(nt, j)]]

(* a node that already has a record keeps it *)
Allocate_once(xs, a, j) ==
  IF xs[a].alloc THEN xs ELSE [xs EXCEPT ![a] = NewState(j)]

(* STATE_LABEL(a) = p = allocate(sizeof *p, FUNC) and the assignments that *)
(* follow it: done on every call, whatever STATE_LABEL(a) held             *)
Allocate(xs, a, j) == [xs EXCEPT ![a] = NewState(j)]

Top == stack[Len(stack)]
Pop == SubSeq(stack, 1, Len(stack) - 1)

(* return from the innermost _label: the caller goes on after its call *)
Return(s) ==
  IF Len(s) = 0 THEN s
  ELSE [s EXCEPT ![Len(s)].i = @ + 1]

(* _label(root) is called *)
LabelEnter ==
  /\ pc = "idle"
  /\ root # NULL
  /\ x_state' = Allocate(x_state, root, junk)
  /\ stack' = <<[a |-> root, i |-> 0]>>
  /\ pc' = "run"
  /\ UNCHANGED <<nodes, root, junk, kids_out>>
  /\ UNCHANGED otherVars

(* the next _label(LEFT_CHILD(a)) / _label(RIGHT_CHILD(a)) of the case *)
LabelCall ==
  /\ pc = "run"
  /\ nodes[Top.a].op \in LabelOps
  /\ Top.i < Len(CaseOf[nodes[Top.a].op].labels)
  /\ LET kid == NodeAt(nodes, Top.a, CaseOf[nodes[Top.a].op].labels[Top.i + 1]) IN
       IF kid = NULL
       THEN /\ pc' = "fatal"
            /\ UNCHANGED <<x_state, stack>>
       ELSE /\ x_state' = Allocate(x_state, kid, junk)
            /\ stack' = Append(stack, [a |-> kid, i |-> 0])
            /\ pc' = pc
  /\ UNCHANGED <<nodes, root, junk, kids_out>>
  /\ UNCHANGED otherVars

(* the rest of the case, after the children are labeled, and the return *)
LabelMatch ==
  /\ pc = "run"
  /\ nodes[Top.a].op \in LabelOps
  /\ Top.i = Len(CaseOf[nodes[Top.a].op].labels)
  /\ x_state' = [x_state EXCEPT ![Top.a] =
                   ApplyRules(nodes, x_state, Top.a, @, CaseOf[nodes[Top.a].op].rules, 1)]
  /\ stack' = Return(Pop)
  /\ pc' = IF Len(stack) = 1 THEN "done" ELSE "run"
  /\ UNCHANGED <<nodes, root, junk, kids_out>>
  /\ UNCHANGED otherVars

(* default: fatal("_label", "Bad terminal %d\n", OP_LABEL(a)) *)
LabelFatal ==
  /\ pc = "run"
  /\ nodes[Top.a].op \notin LabelOps
  /\ pc' = "fatal"
  /\ UNCHANGED <<nodes, root, x_state, stack, junk, kids_out>>
  /\ UNCHANGED otherVars

(* ---------------------------------------------------------------------- *)
(* _rule and _kids                                                        *)
(* ---------------------------------------------------------------------- *)
_decode ==
  <<_decode_stmt, _decode_reg, _decode_con2, _decode_con1,
    _decode_con4, _decode_conN, _decode_addr, _decode_faddr>>

(* what a read past the end of a _decode_* table yields *)
OutOfTable == -1

(* _rule handing back the internal rule number *)
_rule_undecoded(p, goalnt) ==
  IF ~p.alloc THEN 0 ELSE p.rule[goalnt]

(* _rule(state, goalnt) for a goal in 1..8; 0 for a NULL state *)
_rule(p, goalnt) ==
  IF ~p.alloc THEN 0
  ELSE IF p.rule[goalnt] + 1 > Len(_decode[goalnt]) THEN OutOfTable
  ELSE _decode[goalnt][p.rule[goalnt] + 1]

KidsRules == {_kids_cases[i].eruleno : i \in 1..Len(_kids_cases)}

KidsOf == [e \in KidsRules |->
             _kids_cases[CHOOSE i \in 1..Len(_kids_cases) : _kids_cases[i].eruleno = e].writes]

(* _kids that stops after kids[0] *)
_kids_first(ns, p, eruleno) ==
  IF eruleno \notin KidsRules
  THEN [fatal |-> TRUE, writes |-> {}]
  ELSE [fatal |-> FALSE,
        writes |-> {<<KidsOf[eruleno][i][1], NodeAt(ns, p, KidsOf[eruleno][i][2])>> :
                      i \in {j \in 1..Len(KidsOf[eruleno]) : KidsOf[eruleno][j][1] = 0}}]

(* _kids(p, eruleno, kids): the entries of kids[] written, as a set of     *)
(* <<index, node>>; fatal when eruleno has no case                         *)
_kids(ns, p, eruleno) ==
  IF eruleno \notin KidsRules
  THEN [fatal |-> TRUE, writes |-> {}]
  ELSE [fatal |-> FALSE,
        writes |-> {<<KidsOf[eruleno][i][1], NodeAt(ns, p, KidsOf[eruleno][i][2])>> :
                      i \in 1..Len(KidsOf[eruleno])}]

(* the external rule numbers _rule can return *)
ExternalRules ==
  UNION {{_decode[nt][i] : i \in 1..Len(_decode[nt])} : nt \in NTs} \ {0}

(* the operators of pattern pat are the operators found at node a *)
RECURSIVE Shape(_, _, _)
Shape(ns, a, pat) ==
  IF a = NULL THEN FALSE
  ELSE IF pat.nt # 0 THEN TRUE
  ELSE /\ ns[a].op = pat.op
       /\ \A i \in 1..Len(pat.kids) : Shape(ns, ns[a].kids[i], pat.kids[i])

(* the reducer calls _kids(p, r, kids) on a node rule r was matched at *)
KidsCall(p, r) ==
  /\ pc = "done"
  /\ p \in 1..Len(nodes)
  /\ r \in ExternalRules
  /\ Shape(nodes, p, _string[r].pat)
  /\ kids_out' = [p |-> p, eruleno |-> r] @@ _kids(nodes, p, r)
  /\ UNCHANGED <<nodes, root, x_state, stack, pc, junk>>
  /\ UNCHANGED otherVars

(* ---------------------------------------------------------------------- *)
(* The grammar read as a set of derivations                               *)
(* ---------------------------------------------------------------------- *)
PatternRules == {e \in 1..Len(_string) : _string[e].pat.nt = 0}
ChainRules == {e \in 1..Len(_string) : _string[e].pat.nt # 0}

(* the pattern rules with operator o at the root that produce nt *)
RulesAt ==
  [o \in LabelOps |-> [nt \in NTs |->
     {e \in PatternRules : _string[e].lhs = nt /\ _string[e].pat.op = o}]]

(* the chain rules that produce nt *)
ChainsTo == [nt \in NTs |-> {e \in ChainRules : _string[e].lhs = nt}]

(* the rule of _label that records external rule e *)
LabelRuleOf ==
  [e \in PatternRules |->
     LET rs == CaseOf[_string[e].pat.op].rules
     IN rs[CHOOSE i \in 1..Len(rs) : _decode[rs[i].nt][rs[i].irule + 1] = e]]

(* the cost a chain rule adds, as its closure function adds it *)
ChainCost(e) ==
  CASE e = 399 -> 0
    [] e = 42 -> 1
    [] e = 43 -> 1
    [] e = 44 -> 3
    [] e = 51 -> 0

Plus(x, y) == IF x >= MaxCost \/ y >= MaxCost \/ x + y >= MaxCost THEN MaxCost ELSE x + y

RECURSIVE SetMin(_)
SetMin(S) ==
  IF S = {} THEN MaxCost
  ELSE LET x == CHOOSE y \in S : \A z \in S : y <= z IN x

RECURSIVE Derive(_, _, _)
RECURSIVE PatCost(_, _, _)
RECURSIVE PatKids(_, _, _, _)

(* the cheapest way node a matches pattern pat: the operators agree and    *)
(* every nonterminal leaf is derived from the subtree found there          *)
PatCost(ns, a, pat) ==
  IF a = NULL THEN MaxCost
  ELSE IF pat.nt # 0 THEN Derive(ns, a, pat.nt)
  ELSE IF ns[a].op # pat.op THEN MaxCost
  ELSE PatKids(ns, a, pat, 1)

PatKids(ns, a, pat, i) ==
  IF i > Len(pat.kids) THEN 0
  ELSE Plus(PatCost(ns, ns[a].kids[i], pat.kids[i]), PatKids(ns, a, pat, i + 1))

(* the own cost of pattern rule e at node a *)
OwnCost(ns, a, e) ==
  LabelRuleOf[e].k
  + (IF LabelRuleOf[e].mv THEN move(a) ELSE 0)
  + (IF LabelRuleOf[e].rng # <<>>
     THEN range(ns, a, LabelRuleOf[e].rng[1], LabelRuleOf[e].rng[2]) ELSE 0)

(* the minimum total cost over all derivations of nt from the subtree at a *)
Derive(ns, a, nt) ==
  IF ns[a].op \notin LabelOps THEN MaxCost
  ELSE SetMin({Plus(PatCost(ns, a, _string[e].pat), OwnCost(ns, a, e)) :
                 e \in RulesAt[ns[a].op][nt]}
              \cup {Plus(Derive(ns, a, _string[e].pat.nt), ChainCost(e)) :
                 e \in ChainsTo[nt]})

(* ---------------------------------------------------------------------- *)
(* Inputs                                                                 *)
(* ---------------------------------------------------------------------- *)
(* the largest constant value of a CNST node *)
MaxVal == 1

Leaf(o, v) == [op |-> o, v |-> v, kids |-> <<>>]
Un(o, t) == [op |-> o, v |-> 0, kids |-> <<t>>]
Bin(o, l, r) == [op |-> o, v |-> 0, kids |-> <<l, r>>]

MkNode(o, v, l, r) == [op |-> o, v |-> v, kids |-> <<l, r>>, cse |-> NULL]

Shift(s, d) ==
  [i \in 1..Len(s) |->
     [s[i] EXCEPT !.kids = [j \in 1..2 |-> IF s[i].kids[j] = NULL THEN NULL
                                            ELSE s[i].kids[j] + d]]]

(* the nodes of a tree in post-order, children named by index *)
RECURSIVE Flatten(_)
Flatten(t) ==
  IF Len(t.kids) = 0 THEN <<MkNode(t.op, t.v, NULL, NULL)>>
  ELSE IF Len(t.kids) = 1
  THEN LET L == Flatten(t.kids[1]) IN Append(L, MkNode(t.op, t.v, Len(L), NULL))
  ELSE LET L == Flatten(t.kids[1])
           R == Shift(Flatten(t.kids[2]), Len(L))
       IN Append(L \o R, MkNode(t.op, t.v, Len(L), Len(L) + Len(R)))

(* the only cases that read the constant's value are those calling range() *)
Leaves ==
  {Leaf(o, 0) : o \in {VREGP, ADDRGP2, ADDRLP2, CNSTI2}}
  \cup {Leaf(CNSTI1, v) : v \in 0..MaxVal}

IndirOps == {INDIRI1, INDIRU1, INDIRI2, INDIRU2, INDIRP2}

(* the loads from one kind of location: a pseudo-register, a global, a local *)
Loads(base) == {Un(o, Leaf(base, 0)) : o \in IndirOps}

(* the operands the three-level patterns descend into *)
Nested ==
  {Un(o, Un(INDIRU1, Leaf(ADDRGP2, 0))) : o \in {LOADI1, LOADU1}}
  \cup {Bin(o, Leaf(ADDRGP2, 0), Un(INDIRI2, Leaf(VREGP, 0))) : o \in {ADDI2, ADDP2}}
  \cup {Bin(ADDP2, Un(INDIRI2, Leaf(VREGP, 0)), Leaf(ADDRGP2, 0))}

OperandGroups ==
  {Leaves \cup Loads(base) : base \in {VREGP, ADDRGP2, ADDRLP2}}
  \cup {Leaves \cup Nested}

Subtrees == UNION OperandGroups

(* the operand pairs of a binary operator: both from one group *)
OperandPairs == UNION {G \X G : G \in OperandGroups}

Arity(o) == Len(CaseOf[o].labels)

(* one tree per operator of the grammar and operand (pair), the constants   *)
(* with every value, and an operator without a case                         *)
InputTrees ==
  {Leaf(o, 0) : o \in {o \in LabelOps : Arity(o) = 0}}
  \cup {Leaf(o, v) : o \in {CNSTI1, CNSTU1}, v \in 0..MaxVal}
  \cup {Un(o, t) : o \in {o \in LabelOps : Arity(o) = 1}, t \in Subtrees}
  \cup {Bin(o, lr[1], lr[2]) : o \in {o \in LabelOps : Arity(o) = 2}, lr \in OperandPairs}
  \cup {Bin(ADDF4, l, l) : l \in Leaves}

(* what allocate() may have left in the rule fields _label does not set:   *)
(* all bits clear, all bits set                                            *)
JunkValues == {0, 255}

(* one tree per rule: the rule's pattern, each nonterminal leaf replaced by *)
(* a subtree that derives it                                               *)
NtTree(nt) ==
  CASE nt = _reg_NT -> Un(INDIRI2, Leaf(VREGP, 0))
    [] nt = _con2_NT -> Leaf(CNSTI2, 0)
    [] nt = _con1_NT -> Leaf(CNSTI1, 0)
    [] nt = _con4_NT -> Leaf(CNSTI4, 0)
    [] nt = _conN_NT -> Leaf(CNSTI1, 1)
    [] nt = _addr_NT -> Leaf(ADDRGP2, 0)
    [] nt = _faddr_NT -> Leaf(ADDRLP2, 0)

RECURSIVE Instance(_)
Instance(pat) ==
  IF pat.nt # 0 THEN NtTree(pat.nt)
  ELSE [op |-> pat.op, v |-> 0,
        kids |-> [i \in 1..Len(pat.kids) |-> Instance(pat.kids[i])]]

PatternTrees ==
  {Instance(_string[e].pat) : e \in PatternRules}
  \cup {Bin(ADDF4, Leaf(VREGP, 0), Leaf(VREGP, 0))}

NoKids == [p |-> NULL, eruleno |-> 0, fatal |-> FALSE, writes |-> {}]

(* the front end hands in a tree; nothing is labeled yet *)
InitLabel(trees, junks) ==
  /\ nodes \in {Flatten(t) : t \in trees}
  /\ root = Len(nodes)
  /\ x_state = [n \in 1..Len(nodes) |-> NoState]
  /\ stack = <<>>
  /\ pc = "idle"
  /\ junk \in junks
  /\ kids_out = NoKids

(* no tree at hand *)
InitNoTree ==
  /\ nodes = <<>>
  /\ root = NULL
  /\ x_state = <<>>
  /\ stack = <<>>
  /\ pc = "idle"
  /\ junk = 0
  /\ kids_out = NoKids


(* a binary node whose two children are one and the same node *)
SharedKids(o, t) ==
  LET L == Flatten(t) IN Append(L, MkNode(o, 0, Len(L), Len(L)))

(* inputs with a shared operand, and the trees with two equal operands *)
DagInputs ==
  {SharedKids(o, t) : o \in {o \in LabelOps : Arity(o) = 2} \cup {ADDF4}, t \in Subtrees}
  \cup {Flatten(Bin(o, t, t)) : o \in {ADDI1, ADDI2}, t \in Subtrees}

(* the front end hands in a node graph; nothing is labeled yet *)
InitDagLabel ==
  /\ nodes \in DagInputs
  /\ root = Len(nodes)
  /\ x_state = [n \in 1..Len(nodes) |-> NoState]
  /\ stack = <<>>
  /\ pc = "idle"
  /\ junk \in JunkValues
  /\ kids_out = NoKids

(* a load of a pseudo-register that holds a common subexpression: node 1   *)
(* is the subexpression (a constant or an address, which is what mayrecalc *)
(* accepts), labeled when its own tree was; node 3 is the load, or an      *)
(* operator without a case, and names node 1 unless c is NULL              *)
RecalcNodes(leaf, o, c) ==
  <<MkNode(leaf.op, leaf.v, NULL, NULL),
    MkNode(VREGP, 0, NULL, NULL),
    [MkNode(o, 0, 2, NULL) EXCEPT !.cse = c]>>

RecalcInputs ==
  {RecalcNodes(l, o, c) : l \in Leaves \ {Leaf(VREGP, 0)}, o \in IndirOps \cup {ADDF4}, c \in {NULL, 1}}

(* the record an earlier _label left at node 1 *)
LabeledLeaf(ns, j) ==
  ApplyRules(ns, [n \in 1..Len(ns) |-> NoState], 1, NewState(j), CaseOf[ns[1].op].rules, 1)

InitRecalcLabel ==
  /\ nodes \in RecalcInputs
  /\ root = Len(nodes)
  /\ junk \in JunkValues
  /\ x_state = [n \in 1..Len(nodes) |-> IF n = 1 THEN LabeledLeaf(nodes, junk) ELSE NoState]
  /\ stack = <<>>
  /\ pc = "idle"
  /\ kids_out = NoKids
(* ---------------------------------------------------------------------- *)
(* The pseudo-register slot table                                         *)
(* ---------------------------------------------------------------------- *)
MAX_VREG_SLOTS == 32

(* the Symbols beyond MAX_VREG_SLOTS a function may reference *)
ExtraSyms == 2
NSyms == MAX_VREG_SLOTS + ExtraSyms
Symbols == 1..NSyms

Slots == 0..(MAX_VREG_SLOTS - 1)
EmptyTable == [i \in Slots |-> NULL]

Min(S) == CHOOSE x \in S : \A y \in S : x <= y

(* get_vreg_slot whose search stops one entry early *)
get_vreg_slot_skiplast(tab, next, reg) ==
  LET found == {i \in 0..(next - 2) : tab[i] = reg} IN
  IF found # {}
  THEN [ret |-> Min(found), tab |-> tab, next |-> next,
        touched |-> 0..Min(found)]
  ELSE IF next < MAX_VREG_SLOTS
  THEN [ret |-> next, tab |-> [tab EXCEPT ![next] = reg], next |-> next + 1,
        touched |-> 0..next]
  ELSE [ret |-> 0, tab |-> tab, next |-> next, touched |-> 0..(next - 1)]

(* get_vreg_slot returning ++next_vreg_slot *)
get_vreg_slot_preinc(tab, next, reg) ==
  LET found == {i \in 0..(next - 1) : tab[i] = reg} IN
  IF found # {}
  THEN [ret |-> Min(found), tab |-> tab, next |-> next,
        touched |-> 0..Min(found)]
  ELSE IF next < MAX_VREG_SLOTS
  THEN [ret |-> next + 1, tab |-> [tab EXCEPT ![next] = reg], next |-> next + 1,
        touched |-> 0..next]
  ELSE [ret |-> 0, tab |-> tab, next |-> next, touched |-> 0..(next - 1)]

(* get_vreg_slot allocating while next_vreg_slot <= MAX_VREG_SLOTS *)
get_vreg_slot_le(tab, next, reg) ==
  LET found == {i \in 0..(next - 1) : tab[i] = reg} IN
  IF found # {}
  THEN [ret |-> Min(found), tab |-> tab, next |-> next,
        touched |-> 0..Min(found)]
  ELSE IF next <= MAX_VREG_SLOTS
  THEN [ret |-> next, tab |-> [i \in Slots |-> IF i = next THEN reg ELSE tab[i]],
        next |-> next + 1, touched |-> 0..next]
  ELSE [ret |-> 0, tab |-> tab, next |-> next, touched |-> 0..(next - 1)]

(* get_vreg_slot(reg) on table tab with next slots handed out: the value   *)
(* returned, the table and the counter afterwards, and the indices of      *)
(* vreg_symbols the call read or wrote                                     *)
get_vreg_slot(tab, next, reg) ==
  LET found == {i \in 0..(next - 1) : tab[i] = reg} IN
  IF found # {}
  THEN [ret |-> Min(found), tab |-> tab, next |-> next,
        touched |-> 0..Min(found)]
  ELSE IF next < MAX_VREG_SLOTS
  THEN [ret |-> next, tab |-> [tab EXCEPT ![next] = reg], next |-> next + 1,
        touched |-> 0..next]
  ELSE [ret |-> 0, tab |-> tab, next |-> next, touched |-> 0..(next - 1)]

NoCall == [reg |-> NULL, ret |-> 0, touched |-> {}]

Referenced == {refs[i].sym : i \in 1..Len(refs)}

(* the Symbol a function body references next when it is a new one: the    *)
(* front end numbers them, upwards or downwards                           *)
Fresh ==
  IF Len(refs) = NSyms THEN {}
  ELSE IF refs = <<>> THEN {1, NSyms}
  ELSE IF refs[1].sym = 1 THEN {Len(refs) + 1}
  ELSE {NSyms - Len(refs)}

(* emit2 asks for the slot of pseudo-register reg *)
GetVregSlot(reg) ==
  /\ fpc = "emitcode"
  /\ reg \in Referenced \cup Fresh
  /\ LET g == get_vreg_slot(vreg_symbols, next_vreg_slot, reg) IN
       /\ vreg_symbols' = g.tab
       /\ next_vreg_slot' = g.next
       /\ call' = [reg |-> reg, ret |-> g.ret, touched |-> g.touched]
       /\ refs' = IF reg \in Referenced THEN refs
                  ELSE Append(refs, [sym |-> reg, slot |-> g.ret])
  /\ UNCHANGED <<fpc, f_in, sym_x, out, machine>>
  /\ UNCHANGED <<labelVars, frameVars, emitVars>>

(* ---------------------------------------------------------------------- *)
(* function()                                                             *)
(* ---------------------------------------------------------------------- *)
CALLEE_SAVE_VREGS == 4

(* the locals a function declares at most *)
MaxLocals == 3

NoArg == -1
Line(op, arg) == [op |-> op, arg |-> arg]

(* roundup(x, n) for n a power of two *)
roundup(x, n) == ((x + (n - 1)) \div n) * n

DigitChar == <<"0", "1", "2", "3", "4", "5", "6", "7", "8", "9">>

RECURSIVE Digits(_)
Digits(n) ==
  IF n < 10 THEN <<DigitChar[n + 1]>>
  ELSE Append(Digits(n \div 10), DigitChar[(n % 10) + 1])

(* stringf("%d", n) *)
stringf_d(n) == IF n < 0 THEN <<"-">> \o Digits(-n) ELSE Digits(n)

(* save_vregs set whatever ncalls is *)
save_vregs_always(ncalls) == CALLEE_SAVE_VREGS

save_vregs(ncalls) == IF ncalls > 0 THEN CALLEE_SAVE_VREGS ELSE 0

(* the lines printed up to TSF *)
Prologue(ncalls) ==
  <<Line("PUSH_FP", NoArg)>>
  \o [i \in 1..save_vregs(ncalls) |-> Line("PUSH_ADDR", i - 1)]
  \o <<Line("TSF", NoArg)>>

(* param_offset started at 4 whatever was saved *)
RECURSIVE param_offset_nosave(_, _, _)
param_offset_nosave(ncalls, params, i) ==
  IF i = 1 THEN 4
  ELSE param_offset_nosave(ncalls, params, i - 1) + roundup(params[i - 1].caller_size, 2)

(* param_offset when the loop reaches parameter i (counted from 1) *)
RECURSIVE param_offset(_, _, _)
param_offset(ncalls, params, i) ==
  IF i = 1 THEN 4 + save_vregs(ncalls) * 2
  ELSE param_offset(ncalls, params, i - 1) + roundup(params[i - 1].caller_size, 2)

(* what the loop stores in callee[i] and caller[i] *)
ParamSyms(ncalls, params) ==
  [i \in 1..Len(params) |->
     LET x == [offset |-> param_offset(ncalls, params, i),
               name |-> stringf_d(param_offset(ncalls, params, i))]
     IN [callee |-> x, caller |-> x]]

(* the lines that reserve the locals: LDI 0 and PUSH, maxoffset times *)
Locals(maxoffset) ==
  IF maxoffset > 0
  THEN [i \in 1..(2 * maxoffset) |->
          IF i % 2 = 1 THEN Line("LDI", 0) ELSE Line("PUSH", NoArg)]
  ELSE <<>>

(* the restore loop counting upwards *)
Epilogue_forward(ncalls) ==
  <<Line("TFS", NoArg)>>
  \o [i \in 1..save_vregs(ncalls) |-> Line("POP_ADDR", i - 1)]
  \o <<Line("POP_FP", NoArg), Line("RET", NoArg)>>

(* the lines printed after emitcode() *)
Epilogue(ncalls) ==
  <<Line("TFS", NoArg)>>
  \o [i \in 1..save_vregs(ncalls) |-> Line("POP_ADDR", save_vregs(ncalls) - i)]
  \o <<Line("POP_FP", NoArg), Line("RET", NoArg)>>

MachineOff == [ip |-> 0]

(* the reset that forgets to clear next_vreg_slot *)
ResetSlots_keepnext(tab, next) == [tab |-> EmptyTable, next |-> next]

(* the reset of the slot table at the head of function() *)
ResetSlots(tab, next) == [tab |-> EmptyTable, next |-> 0]

(* the types of the locals gencode() announces: char, int, long, char[3]   *)
LocalTypes ==
  {[size |-> 1, align |-> 1], [size |-> 2, align |-> 2],
   [size |-> 4, align |-> 2], [size |-> 3, align |-> 1]}

(* offset advanced by the size alone *)
local_offset_unaligned(off, size, align) == off + size

(* the new value of offset in local() *)
local_offset(off, size, align) ==
  roundup(off + size, IF align < 2 THEN 2 ELSE align)

(* function(f, caller, callee, ncalls) up to its call of gencode()         *)
FunctionBegin(ncalls, params) ==
  /\ fpc = "idle"
  /\ next_vreg_slot' = ResetSlots(vreg_symbols, next_vreg_slot).next
  /\ vreg_symbols' = ResetSlots(vreg_symbols, next_vreg_slot).tab
  /\ f_in' = [ncalls |-> ncalls, params |-> params, maxoffset |-> 0,
              later |-> out # <<>>]
  /\ sym_x' = ParamSyms(ncalls, params)
  /\ out' = Prologue(ncalls)
  /\ offset' = 0
  /\ locals' = <<>>
  /\ fpc' = "gencode"
  /\ call' = NoCall
  /\ refs' = <<>>
  /\ machine' = MachineOff
  /\ UNCHANGED <<labelVars, emitVars>>

(* local(p), called by gencode() for a local of the given type             *)
Local(size, align) ==
  /\ fpc = "gencode"
  /\ Len(locals) < MaxLocals
  /\ offset' = local_offset(offset, size, align)
  /\ locals' = Append(locals,
                  [size |-> size, align |-> align,
                   x |-> [offset |-> -local_offset(offset, size, align),
                          name |-> stringf_d(-local_offset(offset, size, align))]])
  /\ UNCHANGED <<vreg_symbols, next_vreg_slot, fpc, f_in, sym_x, out, call, refs, machine>>
  /\ UNCHANGED <<labelVars, emitVars>>

(* gencode() returns, its blocks having left the largest offset in         *)
(* maxoffset, and function() prints the reservation of the locals          *)
FunctionGenerated ==
  /\ fpc = "gencode"
  /\ f_in' = [f_in EXCEPT !.maxoffset = offset]
  /\ out' = out \o Locals(offset) \o <<Line("emitcode", NoArg)>>
  /\ fpc' = "emitcode"
  /\ UNCHANGED <<vreg_symbols, next_vreg_slot, sym_x, call, refs, machine>>
  /\ UNCHANGED <<labelVars, frameVars, emitVars>>

(* emitcode() returns and function() prints the epilogue *)
FunctionEnd ==
  /\ fpc = "emitcode"
  /\ out' = out \o Epilogue(f_in.ncalls)
  /\ fpc' = "idle"
  /\ UNCHANGED <<vreg_symbols, next_vreg_slot, f_in, sym_x, call, refs, machine>>
  /\ UNCHANGED <<labelVars, frameVars, emitVars>>

(* ---------------------------------------------------------------------- *)
(* The printed function run on the NEANDER-X stack machine                *)
(* ---------------------------------------------------------------------- *)
(* SP after reset; the stack grows down *)
StackTop == 255
(* the address CALL pushed *)
RetAddr == 259
(* the caller's frame pointer *)
CallerFP == 255

(* the instructions a function body executes at most *)
MaxBody == 2
(* the words a body pushes or stores *)
BodyWords == {0, 7}

(* what _vreg0 .. _vreg3 hold when the function is called *)
EntryVreg == [i \in 0..(CALLEE_SAVE_VREGS - 1) |-> 11 + i]

Word(v) == v % 65536

(* the ARG statements a call site has at most *)
MaxArgs == 2

(* the parameters a function has at most *)
MaxParams == 2

(* the stack cells the run can reach: an argument takes three words at most *)
StackAddrs(ncalls, maxoffset) ==
  {StackTop - 2 * k :
     k \in 1..(3 * (MaxArgs + MaxParams) + 2 + save_vregs(ncalls) + maxoffset + MaxBody)}

Push(m, w) ==
  [m EXCEPT !.SP = Word(m.SP - 2), !.mem[Word(m.SP - 2)] = w]

Popped(m) == m.mem[m.SP]
Drop(m) == [m EXCEPT !.SP = Word(m.SP + 2)]

(* one instruction of the listing *)
Execute(m, l) ==
  CASE l.op = "PUSH_FP" -> Push(m, m.FP)
    [] l.op = "PUSH_ADDR" -> Push(m, m.vreg[l.arg])
    [] l.op = "TSF" -> [m EXCEPT !.FP = m.SP]
    [] l.op = "LDI" -> [m EXCEPT !.AC = l.arg]
    [] l.op = "PUSH" -> Push(m, m.AC)
    [] l.op = "TFS" -> [m EXCEPT !.SP = m.FP]
    [] l.op = "POP_ADDR" -> [Drop(m) EXCEPT !.vreg[l.arg] = Popped(m)]
    [] l.op = "POP_FP" -> [Drop(m) EXCEPT !.FP = Popped(m)]
    [] l.op = "RET" -> [Drop(m) EXCEPT !.ret = Popped(m)]

(* the template of ARGI1 .. ARGP2 (rules 365-369), "PUSH", executed with   *)
(* the argument w in AC                                                   *)
SiteArg(w) ==
  /\ fpc = "idle"
  /\ out # <<>>
  /\ machine.ip = 0
  /\ Len(site) < MaxArgs
  /\ site' = Append(site, w)
  /\ UNCHANGED <<vreg_symbols, next_vreg_slot, fpc, f_in, sym_x, out, call, refs, machine>>
  /\ UNCHANGED <<labelVars, frameVars, dataVars>>

(* the template of CALL (rules 373-381), "CALL %0", executed: the return   *)
(* address goes on the stack below the arguments, the caller's registers   *)
(* live, and the template prints nothing after the CALL                    *)
MachineCall ==
  /\ fpc = "idle"
  /\ out # <<>>
  /\ machine.ip = 0
  /\ machine' =
       [ip |-> 1,
        SP |-> StackTop - 2 * Len(site) - 2,
        FP |-> CallerFP,
        AC |-> 0,
        mem |-> [a \in StackAddrs(f_in.ncalls, f_in.maxoffset) |->
                   IF a = StackTop - 2 * Len(site) - 2 THEN RetAddr
                   ELSE IF a >= StackTop - 2 * Len(site)
                   THEN site[(StackTop - a) \div 2]
                   ELSE 0],
        vreg |-> EntryVreg,
        body |-> 0,
        ret |-> NULL,
        nargs |-> Len(site)]
  /\ site' = <<>>
  /\ UNCHANGED <<vreg_symbols, next_vreg_slot, fpc, f_in, sym_x, out, call, refs>>
  /\ UNCHANGED <<labelVars, frameVars, dataVars>>

Running == machine.ip # 0 /\ machine.ip \in 1..Len(out)

(* the next instruction function() printed *)
MachineStep ==
  /\ Running
  /\ out[machine.ip].op # "emitcode"
  /\ machine' = [Execute(machine, out[machine.ip]) EXCEPT !.ip = machine.ip + 1]
  /\ UNCHANGED <<vreg_symbols, next_vreg_slot, fpc, f_in, sym_x, out, call, refs>>
  /\ UNCHANGED <<labelVars, frameVars, emitVars>>

AtBody == Running /\ out[machine.ip].op = "emitcode"

(* the body pushes a word *)
BodyPush(w) ==
  /\ AtBody
  /\ machine.body < MaxBody
  /\ machine' = [Push(machine, w) EXCEPT !.body = machine.body + 1]
  /\ UNCHANGED <<vreg_symbols, next_vreg_slot, fpc, f_in, sym_x, out, call, refs>>
  /\ UNCHANGED <<labelVars, frameVars, emitVars>>

(* the body pops a word it, or the local reservation, pushed *)
BodyPop ==
  /\ AtBody
  /\ machine.body < MaxBody
  /\ machine.SP < machine.FP
  /\ machine' = [Drop(machine) EXCEPT !.AC = Popped(machine), !.body = machine.body + 1]
  /\ UNCHANGED <<vreg_symbols, next_vreg_slot, fpc, f_in, sym_x, out, call, refs>>
  /\ UNCHANGED <<labelVars, frameVars, emitVars>>

(* the body stores into a pseudo-register slot *)
BodyStore(i, w) ==
  /\ AtBody
  /\ machine.body < MaxBody
  /\ machine' = [machine EXCEPT !.vreg[i] = w, !.body = machine.body + 1]
  /\ UNCHANGED <<vreg_symbols, next_vreg_slot, fpc, f_in, sym_x, out, call, refs>>
  /\ UNCHANGED <<labelVars, frameVars, emitVars>>

(* the body falls through to the epilogue *)
BodyEnd ==
  /\ AtBody
  /\ machine' = [machine EXCEPT !.ip = machine.ip + 1]
  /\ UNCHANGED <<vreg_symbols, next_vreg_slot, fpc, f_in, sym_x, out, call, refs>>
  /\ UNCHANGED <<labelVars, frameVars, emitVars>>

Returned == machine.ip # 0 /\ machine.ip = Len(out) + 1

(* ---------------------------------------------------------------------- *)
(* The templates of 32-bit operands and of ADDI4/ADDU4, run on the machine *)
(* ---------------------------------------------------------------------- *)
(* a 32-bit value, written as its two 16-bit halves *)
V32(h, l) == [hi |-> h, lo |-> l]

(* lo(v), hi(v): the 16-bit halves of a 32-bit constant *)
lo(v) == v.lo
hi(v) == v.hi

(* rule 44, reg: con4 *)
con4_template(v) ==
  <<Line("LDI", lo(v)), Line("PUSH", NoArg), Line("LDI", hi(v))>>

(* rules 70-72, reg: INDIRI4(addr), with %0 the address of a variable       *)
INDIR4_template(addr) ==
  <<Line("LDA", <<addr, 0>>), Line("PUSH", NoArg), Line("LDA", <<addr, 2>>)>>

(* rules 156-157, reg: ADDI4(reg,reg) and reg: ADDU4(reg,reg) *)
ADD4_template ==
  <<Line("STA", <<"_tmp", 0>>), Line("POP", NoArg),
    Line("STA", <<"_tmp_hi", 0>>), Line("POP", NoArg),
    Line("STA", <<"_tmp2_hi", 0>>), Line("POP", NoArg),
    Line("ADD", <<"_tmp", 0>>), Line("PUSH", NoArg),
    Line("LDA", <<"_tmp2_hi", 0>>), Line("ADC", <<"_tmp_hi", 0>>)>>

(* the 32-bit values the sums are taken of *)
Vals32 ==
  {V32(0, 0), V32(0, 1), V32(0, 65535), V32(1, 0),
   V32(1, 57920),      \* 123456
   V32(9, 64497),      \* 654321
   V32(65535, 65535)}

(* an operand is a constant or a variable read from memory *)
OperandKinds == {"con4", "INDIR4"}

Operand(kind, v, addr) ==
  IF kind = "con4" THEN con4_template(v) ELSE INDIR4_template(addr)

(* the memory of the run: the temporaries progbeg declares and the two     *)
(* variables, low half first                                               *)
Cells ==
  {<<"_tmp", 0>>, <<"_tmp_hi", 0>>, <<"_tmp2_hi", 0>>,
   <<"a", 0>>, <<"a", 2>>, <<"b", 0>>, <<"b", 2>>}

CpuOff == [ip |-> 0]

(* a 16-bit word read as a signed number *)
Signed(w) == IF w >= 32768 THEN w - 65536 ELSE w

(* AND, OR, XOR of the low n bits of a and b *)
RECURSIVE Bitwise(_, _, _, _)
Bitwise(f, a, b, n) ==
  IF n = 0 THEN 0
  ELSE 2 * Bitwise(f, a \div 2, b \div 2, n - 1)
       + (CASE f = "AND" -> (a % 2) * (b % 2)
            [] f = "OR" -> IF (a % 2) + (b % 2) > 0 THEN 1 ELSE 0
            [] f = "XOR" -> (a + b) % 2)

(* the flags of AC - m: zero, sign, borrow, signed overflow *)
CmpFlags(a, m) ==
  [Z |-> a = m, N |-> Word(a - m) >= 32768, C |-> a < m,
   V |-> Signed(a) - Signed(m) \notin -32768..32767]

(* the flags of a value moved into AC *)
MoveFlags(a) == [Z |-> a = 0, N |-> a >= 32768, C |-> FALSE, V |-> FALSE]

(* one instruction: AC, X, Y and the stack hold 16-bit words, ADD and ADC  *)
(* set the carry flag, ADC adds it; CMP compares AC with memory; the       *)
(* flags are kept where a template's jump reads them                       *)
CpuExecute(c, l) ==
  CASE l.op = "LDI" -> [c EXCEPT !.AC = l.arg]
    [] l.op = "LDA" -> [c EXCEPT !.AC = c.mem[l.arg]]
    [] l.op = "STA" -> [c EXCEPT !.mem[l.arg] = c.AC]
    [] l.op = "PUSH" -> [c EXCEPT !.stk = Append(c.stk, c.AC)]
    [] l.op = "POP" -> [c EXCEPT !.AC = c.stk[Len(c.stk)],
                                 !.stk = SubSeq(c.stk, 1, Len(c.stk) - 1)]
    [] l.op = "ADD" -> [c EXCEPT !.AC = Word(c.AC + c.mem[l.arg]),
                                 !.C = (c.AC + c.mem[l.arg]) \div 65536]
    [] l.op = "ADC" -> [c EXCEPT !.AC = Word(c.AC + c.mem[l.arg] + c.C),
                                 !.C = (c.AC + c.mem[l.arg] + c.C) \div 65536]
    [] l.op = "SUB" -> [c EXCEPT !.AC = Word(c.AC - c.mem[l.arg])]
    [] l.op \in {"AND", "OR", "XOR"} ->
         [c EXCEPT !.AC = Bitwise(l.op, c.AC, c.mem[l.arg], 16)]
    [] l.op = "CMP" -> [c EXCEPT !.flags = CmpFlags(c.AC, c.mem[l.arg])]
    [] l.op = "TAX" -> [c EXCEPT !.X = c.AC]
    [] l.op = "TXA" -> [c EXCEPT !.AC = c.X, !.flags = MoveFlags(c.X)]
    [] l.op = "TAY" -> [c EXCEPT !.Y = c.AC]
    [] l.op = "TYA" -> [c EXCEPT !.AC = c.Y]
    [] l.op = "MUL" -> [c EXCEPT !.AC = Word(c.AC * c.X), !.Y = (c.AC * c.X) \div 65536]
    [] l.op = "DIV" -> IF c.X = 0 THEN c
                       ELSE [c EXCEPT !.AC = c.AC \div c.X, !.Y = c.AC % c.X]
    [] l.op = "MOD" -> IF c.X = 0 THEN c ELSE [c EXCEPT !.AC = c.AC % c.X]
    [] l.op = "SHL" -> [c EXCEPT !.AC = Word(2 * c.AC)]
    [] l.op = "SHR" -> [c EXCEPT !.AC = c.AC \div 2]
    [] l.op = "ASR" -> [c EXCEPT !.AC = Word(Signed(c.AC) \div 2)]
    [] l.op = "DEC" -> [c EXCEPT !.AC = Word(c.AC - 1)]
    [] l.op = "NEG" -> [c EXCEPT !.AC = Word(0 - c.AC)]
    [] l.op = "label" -> c

(* the code of a + b is about to run: the left operand, the right operand, *)
(* then the template of the sum; x is the word the surrounding code has    *)
(* on top of the stack                                                     *)
Add4Begin(a, b, ka, kb, x) ==
  /\ cpu.ip = 0
  /\ cpu' = [ip |-> 1,
             prog |-> Operand(ka, a, "a") \o Operand(kb, b, "b") \o ADD4_template,
             AC |-> 0,
             C |-> 0,
             stk |-> <<x>>,
             mem |-> [m \in Cells |->
                        CASE m = <<"a", 0>> -> lo(a)
                          [] m = <<"a", 2>> -> hi(a)
                          [] m = <<"b", 0>> -> lo(b)
                          [] m = <<"b", 2>> -> hi(b)
                          [] OTHER -> 0],
             a |-> a,
             b |-> b,
             x |-> x]
  /\ UNCHANGED <<labelVars, funcVars, frameVars, site, text>>

(* the next instruction of the code *)
CpuStep ==
  /\ cpu.ip # 0
  /\ cpu.ip <= Len(cpu.prog)
  /\ cpu' = [CpuExecute(cpu, cpu.prog[cpu.ip]) EXCEPT !.ip = cpu.ip + 1]
  /\ UNCHANGED <<labelVars, funcVars, frameVars, site, text>>

CpuDone == cpu.ip # 0 /\ cpu.ip = Len(cpu.prog) + 1

(* ---------------------------------------------------------------------- *)
(* defconst                                                               *)
(* ---------------------------------------------------------------------- *)
(* the constants a compilation defines at most *)
MaxConsts == 2

(* the sizes the front end asks for: the integer and pointer sizes of the  *)
(* interface, the size 0 it gives the floating types, and 3 and 8          *)
ConstSizes == {0, 1, 2, 3, 4, 8}

(* the values v.u *)
ConstValues == {0, 1, 255, 256, 4660, 65535, 65536, 305419896, 2147483647}

(* (v.u >> n) & 0xFF *)
ShiftMask(v, n) == (v \div Pow2(n)) % 256

(* the bytes printed most significant first *)
defconst_be(size, v) ==
  CASE size = 1 -> [lines |-> <<ShiftMask(v, 0)>>, aborted |-> FALSE]
    [] size = 2 -> [lines |-> <<ShiftMask(v, 8), ShiftMask(v, 0)>>, aborted |-> FALSE]
    [] size = 4 -> [lines |-> <<ShiftMask(v, 24), ShiftMask(v, 16),
                              ShiftMask(v, 8), ShiftMask(v, 0)>>,
                    aborted |-> FALSE]
    [] OTHER -> [lines |-> <<>>, aborted |-> TRUE]

(* the .byte directives defconst(suffix, size, v) prints, and whether it   *)
(* ran into assert(0)                                                      *)
defconst(size, v) ==
  CASE size = 1 -> [lines |-> <<ShiftMask(v, 0)>>, aborted |-> FALSE]
    [] size = 2 -> [lines |-> <<ShiftMask(v, 0), ShiftMask(v, 8)>>, aborted |-> FALSE]
    [] size = 4 -> [lines |-> <<ShiftMask(v, 0), ShiftMask(v, 8),
                              ShiftMask(v, 16), ShiftMask(v, 24)>>,
                    aborted |-> FALSE]
    [] OTHER -> [lines |-> <<>>, aborted |-> TRUE]

NoText == [lines |-> <<>>, aborted |-> FALSE, calls |-> <<>>]

(* the front end calls defconst: the directives go to the output; calls    *)
(* keeps the arguments and where the output stood                          *)
Defconst(size, v) ==
  /\ ~text.aborted
  /\ Len(text.calls) < MaxConsts
  /\ text' = [lines |-> text.lines \o [i \in 1..Len(defconst(size, v).lines) |->
                                         Line(".byte", defconst(size, v).lines[i])],
              aborted |-> defconst(size, v).aborted,
              calls |-> Append(text.calls, [size |-> size, v |-> v, at |-> Len(text.lines)])]
  /\ UNCHANGED <<labelVars, funcVars, frameVars, site, cpu>>

(* ---- templates that define internal branch targets ---- *)

(* the emission sites of one output at most *)
MaxSites == 2

(* a node without a symbol: syms[0] is NULL *)
NoSym == -1

(* the variable-shift loop of rules 248..251 and 256..259: the label l,    *)
(* the exit label d and the shift instruction op                           *)
ShiftLoop(l, d, op) ==
  <<Line("TAX", NoArg), Line("POP", NoArg), Line("TAY", NoArg),
    Line("label", l), Line("TXA", NoArg), Line("JZ", d),
    Line("TYA", NoArg), Line(op, NoArg), Line("TAY", NoArg),
    Line("TXA", NoArg), Line("DEC", NoArg), Line("TAX", NoArg),
    Line("JMP", l), Line("label", d), Line("TYA", NoArg)>>

(* _templates[r] of the rules whose template defines labels; a label       *)
(* operand stands for the text before its %a                               *)
LabelTemplate(r) ==
  CASE r \in {248, 249} -> ShiftLoop("_shl2_", "_shl2d_", "SHL")
    [] r = 250 -> ShiftLoop("_shr2_", "_shr2d_", "SHR")
    [] r = 251 -> ShiftLoop("_asr2_", "_asr2d_", "ASR")
    [] r \in {256, 257} -> ShiftLoop("_shl_", "_shld_", "SHL")
    [] r = 258 -> ShiftLoop("_shr_", "_shrd_", "SHR")
    [] r = 259 -> ShiftLoop("_asr_", "_asrd_", "ASR")
    [] r = 272 -> <<Line("TAY", NoArg), Line("JN", "_sx4_"), Line("LDI", 0),
                    Line("JMP", "_sx4d_"), Line("label", "_sx4_"),
                    Line("LDI", 65535), Line("label", "_sx4d_"),
                    Line("PUSH", NoArg), Line("TYA", NoArg)>>

LabelRules == {248, 249, 250, 251, 256, 257, 258, 259, 272}

BranchOps == {"label", "JZ", "JN", "JMP"}

(* the symbol the front end gives the node of a rule: a conversion carries *)
(* the constant of its source size, whose name is its decimal; a shift     *)
(* carries none                                                            *)
SiteSyms(r) == IF r = 272 THEN {1, 2} ELSE {NoSym}

(* what a read through the NULL symbol can leave in the output             *)
StrayNames == {0, 1}

(* the template with every %a replaced by the name a *)
Expand(tpl, a) ==
  [i \in 1..Len(tpl) |->
     IF tpl[i].op \in BranchOps THEN Line(tpl[i].op, <<tpl[i].arg, a>>) ELSE tpl[i]]

(* the emitter prints the template of rule r for a node with symbol sym;   *)
(* without a symbol the read of syms[0]->x.name is undefined: the emitter  *)
(* stops (g = NoSym) or prints the stray name g                            *)
EmitSite(r, sym, g) ==
  /\ ~text.aborted
  /\ Len(text.calls) < MaxSites
  /\ sym \in SiteSyms(r)
  /\ sym # NoSym => g = sym
  /\ text' = [lines |-> IF g = NoSym THEN text.lines
                        ELSE text.lines \o Expand(LabelTemplate(r), g),
              aborted |-> (g = NoSym),
              calls |-> Append(text.calls, [rule |-> r, sym |-> sym, at |-> Len(text.lines)])]
  /\ UNCHANGED <<labelVars, funcVars, frameVars, site, cpu>>

(* ---------------------------------------------------------------------- *)
(* emit2: the code of the rules whose template starts with '#'            *)
(* ---------------------------------------------------------------------- *)
(* specific(op) and generic(op): the operator without its size, and        *)
(* without its size and type                                               *)
specific(o) == o % 1024
generic(o) == specific(o) - (o % 16)

(* the rules whose template starts with '#' *)
PeepholeRules == 1..31

(* IS_VREG_NODE(n) *)
IS_VREG_NODE(ns, n) == n # NULL /\ ns[n].op = VREGP

(* n->syms[0] of a pseudo-register or address node, u.c.v.i of a constant *)
Sym(ns, n) == ns[n].v

VregName(slot) == <<"_vreg", slot>>

(* nothing printed *)
NoCode(tab, next) == [lines |-> <<>>, tab |-> tab, next |-> next]

(* generic(n->op) == INDIR && IS_VREG_NODE(LEFT_CHILD(n)) *)
IsVregRead(ns, n) ==
  n # NULL /\ generic(ns[n].op) = generic(INDIRI1) /\ IS_VREG_NODE(ns, ns[n].kids[1])

(* case ASGN+I, ASGN+U, ASGN+P *)
emit2_ASGN(ns, p, tab, next) ==
  LET left == ns[p].kids[1]
      right == ns[p].kids[2]
      addr == IF right # NULL /\ generic(ns[right].op) = generic(INDIRI1)
              THEN ns[right].kids[1] ELSE NULL
      load == IF addr = NULL THEN <<>>
              ELSE IF generic(ns[addr].op) \in {generic(ADDRFP2), generic(ADDRLP2)}
              THEN <<Line("LDA", <<"FP", Sym(ns, addr)>>)>>
              ELSE IF generic(ns[addr].op) = generic(ADDRGP2)
              THEN <<Line("LDA", <<"name", Sym(ns, addr)>>)>>
              ELSE <<>>
  IN IF IS_VREG_NODE(ns, left)
     THEN LET g == get_vreg_slot(tab, next, Sym(ns, left))
          IN [lines |-> Append(load, Line("STA", VregName(g.ret))),
              tab |-> g.tab, next |-> g.next]
     ELSE NoCode(tab, next)

(* case INDIR+I, INDIR+U, INDIR+P *)
emit2_INDIR(ns, p, tab, next) ==
  IF IS_VREG_NODE(ns, ns[p].kids[1])
  THEN LET g == get_vreg_slot(tab, next, Sym(ns, ns[p].kids[1]))
       IN [lines |-> <<Line("LDA", VregName(g.ret))>>, tab |-> g.tab, next |-> g.next]
  ELSE NoCode(tab, next)

(* the sequence of an operator over two pseudo-registers: the slot read    *)
(* first, the instruction after it, and the instruction after the second   *)
(* read                                                                    *)
PairCode(o, slot1, slot2) ==
  CASE generic(o) = generic(MULI2) ->
         <<Line("LDA", VregName(slot2)), Line("TAX", NoArg),
           Line("LDA", VregName(slot1)), Line("MUL", NoArg)>>
    [] generic(o) = generic(SUBI2) ->
         <<Line("LDA", VregName(slot2)), Line("STA", "_tmp"),
           Line("LDA", VregName(slot1)), Line("SUB", "_tmp")>>
    [] generic(o) = generic(ADDI2) ->
         <<Line("LDA", VregName(slot1)), Line("STA", "_tmp"),
           Line("LDA", VregName(slot2)), Line("ADD", "_tmp")>>
    [] generic(o) = generic(BXORI2) ->
         <<Line("LDA", VregName(slot1)), Line("STA", "_tmp"),
           Line("LDA", VregName(slot2)), Line("XOR", "_tmp")>>
    [] generic(o) = generic(BANDI2) ->
         <<Line("LDA", VregName(slot1)), Line("STA", "_tmp"),
           Line("LDA", VregName(slot2)), Line("AND", "_tmp")>>
    [] generic(o) = generic(BORI2) ->
         <<Line("LDA", VregName(slot1)), Line("STA", "_tmp"),
           Line("LDA", VregName(slot2)), Line("OR", "_tmp")>>

(* the test for vreg op vreg and what follows it *)
emit2_pair(ns, p, tab, next) ==
  LET left == ns[p].kids[1]
      right == ns[p].kids[2]
  IN IF left # NULL /\ right # NULL /\ IsVregRead(ns, left) /\ IsVregRead(ns, right)
     THEN LET g1 == get_vreg_slot(tab, next, Sym(ns, ns[left].kids[1]))
              g2 == get_vreg_slot(g1.tab, g1.next, Sym(ns, ns[right].kids[1]))
          IN [lines |-> PairCode(ns[p].op, g1.ret, g2.ret), tab |-> g2.tab, next |-> g2.next]
     ELSE NoCode(tab, next)

(* case ADD that knows vreg + vreg only *)
emit2_ADD_pair(ns, p, tab, next) == emit2_pair(ns, p, tab, next)

(* case ADD+I, ADD+U, ADD+P: vreg + vreg, else vreg + const *)
emit2_ADD(ns, p, tab, next) ==
  LET left == ns[p].kids[1]
      right == ns[p].kids[2]
  IN IF left # NULL /\ right # NULL /\ IsVregRead(ns, left) /\ IsVregRead(ns, right)
     THEN emit2_pair(ns, p, tab, next)
     ELSE IF left # NULL /\ right # NULL /\ IsVregRead(ns, left)
             /\ generic(ns[right].op) = generic(CNSTI2)
     THEN LET g == get_vreg_slot(tab, next, Sym(ns, ns[left].kids[1]))
          IN [lines |-> <<Line("LDA", VregName(g.ret)), Line("STA", "_tmp"),
                          Line("LDI", Sym(ns, right)), Line("ADD", "_tmp")>>,
              tab |-> g.tab, next |-> g.next]
     ELSE NoCode(tab, next)

(* emit2(p) with the slot table tab and next slots handed out: the lines   *)
(* printed and the table afterwards                                        *)
emit2(ns, p, tab, next) ==
  LET op == specific(ns[p].op) IN
  CASE op \in {specific(ASGNI1), specific(ASGNU1), specific(ASGNP2)} ->
         emit2_ASGN(ns, p, tab, next)
    [] op \in {specific(INDIRI1), specific(INDIRU1), specific(INDIRP2)} ->
         emit2_INDIR(ns, p, tab, next)
    [] op \in {specific(ADDI2), specific(ADDU2), specific(ADDP2)} ->
         emit2_ADD(ns, p, tab, next)
    [] op \in {specific(MULI2), specific(MULU2), specific(SUBI2), specific(SUBU2),
               specific(BXORI2), specific(BXORU2), specific(BANDI2), specific(BANDU2),
               specific(BORI2), specific(BORU2)} ->
         emit2_pair(ns, p, tab, next)
    [] OTHER -> NoCode(tab, next)

(* the nodes emit2 was called for *)
Emitted == {text.calls[i].p : i \in 1..Len(text.calls)}

(* the emitter reaches node p, reduced to nonterminal nt by a rule whose   *)
(* template starts with '#', and calls emit2(p)                            *)
Emit2Call(p, nt) ==
  /\ pc = "done"
  /\ p \in 1..Len(nodes) \ Emitted
  /\ x_state[p].alloc
  /\ x_state[p].cost[nt] < MaxCost
  /\ _rule(x_state[p], nt) \in PeepholeRules
  /\ LET e == emit2(nodes, p, vreg_symbols, next_vreg_slot) IN
       /\ text' = [text EXCEPT
                     !.lines = @ \o e.lines,
                     !.calls = Append(@, [p |-> p, rule |-> _rule(x_state[p], nt),
                                          lines |-> e.lines])]
       /\ vreg_symbols' = e.tab
       /\ next_vreg_slot' = e.next
  /\ UNCHANGED <<fpc, f_in, sym_x, out, call, refs, machine>>
  /\ UNCHANGED <<labelVars, frameVars, site, cpu>>

(* the operands a reg or con2 leaf of a '#' rule stands for *)
PeepOperands(nt) ==
  IF nt = _reg_NT
  THEN {Un(INDIRI2, Leaf(VREGP, 0)), Un(INDIRI2, Leaf(ADDRLP2, 3)),
        Un(INDIRI2, Leaf(ADDRFP2, 4)), Un(INDIRI2, Leaf(ADDRGP2, 5)), Leaf(CNSTI2, 1),
        Bin(ADDI2, Un(INDIRI2, Leaf(VREGP, 0)), Leaf(CNSTI2, 1))}
  ELSE {Leaf(CNSTI2, v) : v \in 0..MaxVal}

(* the pattern with its one nonterminal leaf replaced by t *)
RECURSIVE PeepInstance(_, _)
PeepInstance(pat, t) ==
  IF pat.nt # 0 THEN t
  ELSE [op |-> pat.op, v |-> 0,
        kids |-> [i \in 1..Len(pat.kids) |-> PeepInstance(pat.kids[i], t)]]

(* the nonterminal leaves of a pattern *)
RECURSIVE PatNts(_)
PatNts(pat) ==
  IF pat.nt # 0 THEN {pat.nt}
  ELSE UNION {PatNts(pat.kids[i]) : i \in 1..Len(pat.kids)}

(* the number of pseudo-register nodes among the first n nodes *)
RECURSIVE VregCount(_, _)
VregCount(ns, n) ==
  IF n = 0 THEN 0
  ELSE VregCount(ns, n - 1) + (IF ns[n].op = VREGP THEN 1 ELSE 0)

(* the k-th pseudo-register node names the Symbol syms[k] *)
WithSyms(ns, syms) ==
  [n \in 1..Len(ns) |->
     IF ns[n].op = VREGP THEN [ns[n] EXCEPT !.v = syms[VregCount(ns, n)]] ELSE ns[n]]

(* the trees of the rules 1..31, over the operands and the Symbols, and a  *)
(* tree with an operator that has no case                                  *)
PeepInputs ==
  {WithSyms(Flatten(PeepInstance(_string[e].pat, t)), syms) :
     e \in PeepholeRules,
     t \in UNION {PeepOperands(nt) : nt \in {_reg_NT, _con2_NT}},
     syms \in [1..3 -> {1, 2}]}
  \cup {Flatten(Bin(ADDF4, Leaf(VREGP, 1), Leaf(VREGP, 2)))}

InitPeepLabel ==
  /\ nodes \in PeepInputs
  /\ root = Len(nodes)
  /\ x_state = [n \in 1..Len(nodes) |-> NoState]
  /\ stack = <<>>
  /\ pc = "idle"
  /\ junk \in JunkValues
  /\ kids_out = NoKids

(* ---------------------------------------------------------------------- *)
(* The arguments of a call, pushed by the templates                       *)
(* ---------------------------------------------------------------------- *)
(* type->size of callee[i] and caller[i] of the scalar parameters: char,   *)
(* a char that arrives widened, int, long                                  *)
ArgTypes ==
  {[callee_size |-> 1, caller_size |-> 1], [callee_size |-> 1, caller_size |-> 2],
   [callee_size |-> 2, caller_size |-> 2], [callee_size |-> 4, caller_size |-> 4]}

ArgLists == UNION {[1..n -> ArgTypes] : n \in 0..MaxParams}

(* the words of argument i: its value, or the halves of its value *)
ArgWord(i) == 16 * i + 1
ArgHigh(i) == 16 * i + 2

(* the argument a word on the stack belongs to *)
ArgOf(w) == w \div 16

(* rules 365-369 and 370-372: stmt: ARGx(reg) *)
ARG_template(size) ==
  IF size = 4
  THEN <<Line("PUSH", NoArg), Line("POP", NoArg), Line("PUSH", NoArg), Line("PUSH", NoArg)>>
  ELSE <<Line("PUSH", NoArg)>>

(* the code of argument i, a constant: its operand by rule 43 or 44, then  *)
(* the ARG template                                                        *)
ArgCode(size, i) ==
  IF size = 4
  THEN con4_template(V32(ArgHigh(i), ArgWord(i))) \o ARG_template(size)
  ELSE <<Line("LDI", ArgWord(i))>> \o ARG_template(size)

(* the machine after the lines prog[k..] *)
RECURSIVE Run(_, _, _)
Run(c, prog, k) ==
  IF k > Len(prog) THEN c ELSE Run(CpuExecute(c, prog[k]), prog, k + 1)

(* the arguments pushed so far *)
ArgsPushed == Cardinality({ArgOf(site[k]) : k \in 1..Len(site)})

(* the next argument of the call, from the right: its code runs *)
SiteArgNext ==
  /\ fpc = "idle"
  /\ out # <<>>
  /\ machine.ip = 0
  /\ ArgsPushed < Len(f_in.params)
  /\ LET i == Len(f_in.params) - ArgsPushed
     IN site' = Run([AC |-> 0, stk |-> site],
                    ArgCode(f_in.params[i].caller_size, i), 1).stk
  /\ UNCHANGED <<vreg_symbols, next_vreg_slot, fpc, f_in, sym_x, out, call, refs, machine>>
  /\ UNCHANGED <<labelVars, frameVars, dataVars>>

(* the CALL that follows the last argument *)
SiteCall ==
  /\ ArgsPushed = Len(f_in.params)
  /\ MachineCall

(* ---------------------------------------------------------------------- *)
(* The templates of the rules over (reg,reg) that POP, and their code      *)
(* ---------------------------------------------------------------------- *)
(* "STA _tmp / POP / <op> _tmp" *)
TmpPop(op) ==
  <<Line("STA", <<"_tmp", 0>>), Line("POP", NoArg), Line(op, <<"_tmp", 0>>)>>

(* "TAX / POP / <op>" *)
XPop(op) == <<Line("TAX", NoArg), Line("POP", NoArg), Line(op, NoArg)>>

(* "STA _tmp / POP / CMP _tmp / <jump> %a" *)
Cmp2(j, a) == TmpPop("CMP") \o <<Line(j, <<"", a>>)>>

(* "TAX / POP / STA _tmp / TXA / CMP _tmp / <jump> %a" *)
Cmp1(j, a) ==
  <<Line("TAX", NoArg), Line("POP", NoArg), Line("STA", <<"_tmp", 0>>),
    Line("TXA", NoArg), Line("CMP", <<"_tmp", 0>>), Line(j, <<"", a>>)>>

(* the jump of the relational rules, 1-byte and 2-byte *)
JumpOf(r) ==
  CASE r \in {281, 282, 309, 310} -> "JZ"
    [] r \in {285, 286, 315, 316} -> "JNZ"
    [] r \in {289, 321} -> "JN"
    [] r \in {291, 322} -> "JC"
    [] r \in {293, 327} -> "JLE"
    [] r \in {295, 328} -> "JBE"
    [] r \in {297, 333} -> "JGT"
    [] r \in {299, 334} -> "JA"
    [] r \in {301, 339} -> "JGE"
    [] r \in {303, 340} -> "JNC"

Cmp1Rules == {281, 282, 285, 286, 289, 291, 293, 295, 297, 299, 301, 303}
Cmp2Rules == {309, 310, 315, 316, 321, 322, 327, 328, 333, 334, 339, 340}
ShiftRules == {248, 249, 250, 251, 256, 257, 258, 259}

(* the rules over (reg,reg), 1 and 2 bytes wide, whose template has a POP *)
PopRules ==
  {135, 136, 137, 153, 154} \cup 160..167 \cup 172..175
    \cup {200, 201, 214, 215, 228, 229} \cup ShiftRules \cup Cmp1Rules \cup Cmp2Rules

(* _templates[r] of these rules, %a replaced by a *)
PopTemplate(r, a) ==
  CASE r \in {135, 136, 137} -> TmpPop("ADD")
    [] r \in {153, 154} -> TmpPop("SUB")
    [] r \in 160..163 -> XPop("MUL")
    [] r \in 164..167 -> XPop("DIV")
    [] r \in 172..175 -> XPop("MOD")
    [] r \in {200, 201} -> TmpPop("AND")
    [] r \in {214, 215} -> TmpPop("OR")
    [] r \in {228, 229} -> TmpPop("XOR")
    [] r \in ShiftRules -> Expand(LabelTemplate(r), a)
    [] r \in Cmp1Rules -> Cmp1(JumpOf(r), a)
    [] r \in Cmp2Rules -> Cmp2(JumpOf(r), a)

(* whether the jump j goes, on the flags f *)
Jumps(j, f) ==
  CASE j = "JMP" -> TRUE
    [] j = "JZ" -> f.Z
    [] j = "JNZ" -> ~f.Z
    [] j = "JN" -> f.N
    [] j = "JC" -> f.C
    [] j = "JNC" -> ~f.C
    [] j = "JLE" -> f.Z \/ (f.N # f.V)
    [] j = "JGT" -> ~f.Z /\ (f.N = f.V)
    [] j = "JGE" -> f.N = f.V
    [] j = "JBE" -> f.C \/ f.Z
    [] j = "JA" -> ~f.C /\ ~f.Z

JumpOps == {"JMP", "JZ", "JNZ", "JN", "JC", "JNC", "JLE", "JGT", "JGE", "JBE", "JA"}

(* where the label lab stands in the code; 0 when it is not of this code *)
LabelAt(prog, lab) ==
  IF \E i \in 1..Len(prog) : prog[i].op = "label" /\ prog[i].arg = lab
  THEN CHOOSE i \in 1..Len(prog) : prog[i].op = "label" /\ prog[i].arg = lab
  ELSE 0

(* the next instruction of the code; a jump to a label of the code goes    *)
(* on there, a jump to another label leaves the code                       *)
CodeStep ==
  /\ cpu.ip # 0
  /\ cpu.ip <= Len(cpu.prog)
  /\ LET l == cpu.prog[cpu.ip] IN
       cpu' = IF l.op \in JumpOps
              THEN IF ~Jumps(l.op, cpu.flags) THEN [cpu EXCEPT !.ip = cpu.ip + 1]
                   ELSE IF LabelAt(cpu.prog, l.arg) # 0
                   THEN [cpu EXCEPT !.ip = LabelAt(cpu.prog, l.arg)]
                   ELSE [cpu EXCEPT !.ip = Len(cpu.prog) + 1, !.taken = TRUE]
              ELSE [CpuExecute(cpu, l) EXCEPT !.ip = cpu.ip + 1]
  /\ UNCHANGED <<labelVars, funcVars, frameVars, site, text>>

(* the POP before the current instruction has just run *)
JustPopped == cpu.ip > 1 /\ cpu.ip - 1 <= Len(cpu.prog) /\ cpu.prog[cpu.ip - 1].op = "POP"

(* ---- the relational rules, run with their operands in place ---- *)

(* the operator of a relational rule, and whether its type is signed *)
RelOf(r) ==
  CASE r \in {281, 282, 283, 284, 309, 310} -> "EQ"
    [] r \in {285, 286, 287, 288, 315, 316} -> "NE"
    [] r \in {289, 290, 291, 292, 321, 322} -> "LT"
    [] r \in {293, 294, 295, 296, 327, 328} -> "LE"
    [] r \in {297, 298, 299, 300, 333, 334} -> "GT"
    [] r \in {301, 302, 303, 304, 339, 340} -> "GE"

(* the type suffix of the rule's operator is I *)
SignedRule(r) == _string[r].pat.op % 16 = 5

(* left REL right, on words of the rule's type *)
Holds(r, l, rt) ==
  LET a == IF SignedRule(r) THEN Signed(l) ELSE l
      b == IF SignedRule(r) THEN Signed(rt) ELSE rt
  IN CASE RelOf(r) = "EQ" -> a = b
       [] RelOf(r) = "NE" -> a # b
       [] RelOf(r) = "LT" -> a < b
       [] RelOf(r) = "LE" -> a <= b
       [] RelOf(r) = "GT" -> a > b
       [] RelOf(r) = "GE" -> a >= b

(* the rule over (reg,INDIR(addr)) of a 1-byte rule over (reg,reg) *)
MemFormOf(r) == IF r <= 286 THEN r + 2 ELSE r + 1

CmpMemRules == {MemFormOf(r) : r \in Cmp1Rules}

(* rules 283..304 over (reg,INDIR(addr)): "CMP %1 / <jump> %a" *)
CmpMem(j, a) == <<Line("CMP", <<"b", 0>>), Line(j, <<"", a>>)>>

(* the values compared: -1 among the 2-byte ones *)
CmpVals(r) == IF r \in Cmp2Rules THEN {1, 2, 65535} ELSE {1, 2}

(* the template of relational rule r is about to run; the operands have    *)
(* been computed: over (reg,reg) the left one is on top of the stack and   *)
(* the right one in AC, over (reg,INDIR(addr)) the left one is in AC and   *)
(* the right one in memory; x is the word below                            *)
CompareBegin(r, l, rt, x) ==
  /\ cpu.ip = 0
  /\ l \in CmpVals(r)
  /\ rt \in CmpVals(r)
  /\ cpu' = [ip |-> 1,
             prog |-> IF r \in CmpMemRules
                      THEN CmpMem(JumpOf(CHOOSE q \in Cmp1Rules : MemFormOf(q) = r), 1)
                      ELSE PopTemplate(r, 1),
             AC |-> IF r \in CmpMemRules THEN l ELSE rt,
             X |-> 0,
             Y |-> 0,
             C |-> 0,
             flags |-> MoveFlags(0),
             stk |-> IF r \in CmpMemRules THEN <<x>> ELSE <<x, l>>,
             mem |-> [m \in Cells |-> IF m = <<"b", 0>> THEN rt ELSE 0],
             taken |-> FALSE,
             rule |-> r,
             left |-> l,
             right |-> rt,
             x |-> x]
  /\ UNCHANGED <<labelVars, funcVars, frameVars, site, text>>

(* ---- the code of a tree whose root is one of these rules ---- *)

(* the type suffix and the size of an operator *)
optype(o) == o % 16
opsize(o) == o \div 1024

(* INDIR of the type and size of o, NEGI and MULI of its size *)
IndirOf(o) == generic(INDIRI2) + optype(o) + 1024 * opsize(o)
NegOf(o) == IF opsize(o) = 1 THEN NEGI1 ELSE NEGI2
MulOf(o) == generic(MULI2) + optype(MULI2) + 1024 * opsize(o)

(* the global variables a and b, as the symbols 1 and 2, and their values *)
GlobalName(v) == IF v = 1 THEN "a" ELSE "b"
GlobalValue(v) == v

(* a variable read *)
Ld(o, g) == Un(IndirOf(o), Leaf(ADDRGP2, g))

(* the operands of a tree with operator o: a, b, -a and a * b *)
BinOperands(o) ==
  {Ld(o, 1), Ld(o, 2), Un(NegOf(o), Ld(NegOf(o), 1)),
   Bin(MulOf(o), Ld(MulOf(o), 1), Ld(MulOf(o), 2))}

(* a shift count is a variable *)
BinTrees(r) ==
  {Bin(_string[r].pat.op, l, rt) :
     l \in BinOperands(_string[r].pat.op),
     rt \in IF r \in ShiftRules
            THEN {Ld(_string[r].pat.op, 1), Ld(_string[r].pat.op, 2)}
            ELSE BinOperands(_string[r].pat.op)}

BinInputs == UNION {{Flatten(t) : t \in BinTrees(r)} : r \in PopRules}

InitBinLabel ==
  /\ nodes \in BinInputs
  /\ root = Len(nodes)
  /\ x_state = [n \in 1..Len(nodes) |-> NoState]
  /\ stack = <<>>
  /\ pc = "idle"
  /\ junk = 0
  /\ kids_out = NoKids

(* the value of an operand *)
RECURSIVE Eval(_, _)
Eval(ns, n) ==
  CASE ns[n].op = ADDRGP2 -> GlobalValue(ns[n].v)
    [] generic(ns[n].op) = generic(INDIRI2) -> Eval(ns, ns[n].kids[1])
    [] generic(ns[n].op) = generic(NEGI2) -> Word(0 - Eval(ns, ns[n].kids[1]))
    [] generic(ns[n].op) = generic(MULI2) ->
         Word(Eval(ns, ns[n].kids[1]) * Eval(ns, ns[n].kids[2]))

(* _templates[r] for node p: the rules of the operands, rule 399 and the   *)
(* rules over (reg,reg); rule 45 is the text of an address, no instruction *)
TemplateOf(r, ns, p) ==
  CASE r = 399 -> <<>>
    [] r \in {45, 51} -> <<>>
    [] r \in 65..69 -> <<Line("LDA", <<GlobalName(ns[ns[p].kids[1]].v), 0>>)>>
    [] r \in {117, 155} -> <<Line("NEG", NoArg)>>
    [] r \in PopRules -> PopTemplate(r, ns[p].v)

(* kids[i] of the kids _kids wrote *)
KidAt(w, i) == (CHOOSE e \in w : e[1] = i)[2]

(* the code of node p for nonterminal nt: the code of kids[0], kids[1],    *)
(* each for the nonterminal _nts names, then the template of the rule      *)
RECURSIVE EmitCode(_, _, _, _)
EmitCode(ns, xs, p, nt) ==
  LET r == _rule(xs[p], nt)
      w == _kids(ns, p, r).writes
      n == Len(_nts[r])
      code(i) == EmitCode(ns, xs, KidAt(w, i - 1), _nts[r][i])
  IN (IF n >= 1 THEN code(1) ELSE <<>>)
       \o (IF n >= 2 THEN code(2) ELSE <<>>)
       \o TemplateOf(r, ns, p)

(* the rule over two operands at the root *)
RootRule ==
  IF _rule(x_state[root], _stmt_NT) = 399 THEN _rule(x_state[root], _reg_NT)
  ELSE _rule(x_state[root], _stmt_NT)

(* the words the surrounding code has on the stack *)
Below == <<3, 5, 7>>

(* the labeled tree is emitted and its code is about to run *)
EmitTree ==
  /\ pc = "done"
  /\ cpu.ip = 0
  /\ RootRule \in PopRules
  /\ cpu' = [ip |-> 1,
             prog |-> EmitCode(nodes, x_state, root, _stmt_NT),
             AC |-> 0,
             X |-> 0,
             Y |-> 0,
             C |-> 0,
             flags |-> MoveFlags(0),
             stk |-> Below,
             mem |-> [m \in Cells |->
                        CASE m = <<"a", 0>> -> GlobalValue(1)
                          [] m = <<"b", 0>> -> GlobalValue(2)
                          [] OTHER -> 0],
             taken |-> FALSE,
             root |-> RootRule,
             left |-> Eval(nodes, nodes[root].kids[1]),
             right |-> Eval(nodes, nodes[root].kids[2])]
  /\ UNCHANGED <<labelVars, funcVars, frameVars, site, text>>

(* ---------------------------------------------------------------------- *)
(* progbeg: the storage words, and emit2 on the pseudo-registers of a      *)
(* function                                                                *)
(* ---------------------------------------------------------------------- *)
(* the bound of the loop that prints the _vreg words *)
VREG_WORDS == 16

(* the runtime variables progbeg prints *)
progbeg ==
  <<Line(".word", <<"_tmp", 0>>), Line(".word", <<"_tmp_hi", 0>>),
    Line(".word", <<"_tmp2", 0>>), Line(".word", <<"_tmp2_hi", 0>>),
    Line(".word", <<"_mask_ff", 0>>)>>
    \o [i \in 1..VREG_WORDS |-> Line(".word", VregName(i - 1))]

(* the labels that name a storage word of the output *)
Declared == {progbeg[i].arg : i \in 1..Len(progbeg)}

(* a read of pseudo-register reg, and a store to it *)
VregTrees(reg) ==
  {Un(INDIRI2, Leaf(VREGP, reg)), Bin(ASGNI1, Leaf(VREGP, reg), Leaf(CNSTI1, 1))}

(* emitcode() reaches a node of a '#' rule over pseudo-register reg: emit2 *)
(* prints its lines; text keeps those of the latest call                   *)
Emit2Vreg(reg, t) ==
  /\ fpc = "emitcode"
  /\ reg \in Referenced \cup Fresh
  /\ t \in VregTrees(reg)
  /\ LET e == emit2(Flatten(t), Len(Flatten(t)), vreg_symbols, next_vreg_slot)
         g == get_vreg_slot(vreg_symbols, next_vreg_slot, reg)
     IN /\ vreg_symbols' = e.tab
        /\ next_vreg_slot' = e.next
        /\ call' = [reg |-> reg, ret |-> g.ret, touched |-> g.touched]
        /\ refs' = IF reg \in Referenced THEN refs
                   ELSE Append(refs, [sym |-> reg, slot |-> g.ret])
        /\ text' = [text EXCEPT !.lines = e.lines]
  /\ UNCHANGED <<fpc, f_in, sym_x, out, machine>>
  /\ UNCHANGED <<labelVars, frameVars, site, cpu>>
(* ---------------------------------------------------------------------- *)
(* Specifications                                                         *)
(* ---------------------------------------------------------------------- *)
(* the call sites a function has at most *)
MaxCalls == 1

(* type->size of callee[i] and of caller[i]: a char that arrives widened,  *)
(* a structure of three bytes, a long                                      *)
ParamTypes ==
  {[callee_size |-> 1, caller_size |-> 2]}
  \cup {[callee_size |-> s, caller_size |-> s] : s \in {3, 4}}

ParamLists == UNION {[1..n -> ParamTypes] : n \in 0..MaxParams}

(* before the first function *)
InitFunc ==
  /\ vreg_symbols = EmptyTable
  /\ next_vreg_slot = 0
  /\ fpc = "idle"
  /\ f_in = [ncalls |-> 0, params |-> <<>>, maxoffset |-> 0, later |-> FALSE]
  /\ sym_x = <<>>
  /\ out = <<>>
  /\ call = NoCall
  /\ refs = <<>>
  /\ machine = MachineOff
  /\ offset = 0
  /\ locals = <<>>
  /\ site = <<>>
  /\ cpu = CpuOff
  /\ text = NoText

(* labeling one tree, the unset rule fields holding set bits *)
Init == InitLabel(InputTrees, {255}) /\ InitFunc

Next == LabelEnter \/ LabelCall \/ LabelMatch \/ LabelFatal

Spec == Init /\ [][Next]_vars

(* the labeler on inputs with a shared node *)
InitDag == InitDagLabel /\ InitFunc

SpecDag == InitDag /\ [][Next]_vars

(* the labeler on loads of common subexpressions *)
InitRecalc == InitRecalcLabel /\ InitFunc

SpecRecalc == InitRecalc /\ [][Next]_vars

(* labeling, then emit2 on the nodes a '#' rule was chosen at *)
InitPeep == InitPeepLabel /\ InitFunc

NextPeep ==
  \/ LabelEnter
  \/ LabelCall
  \/ LabelMatch
  \/ LabelFatal
  \/ \E p \in 1..Len(nodes), nt \in NTs : Emit2Call(p, nt)

SpecPeep == InitPeep /\ [][NextPeep]_vars

(* the rules the reducer can have found at a node with operator o *)
RulesFor ==
  [o \in LabelOps \cup {ADDF4} |->
     {e \in PatternRules : _string[e].pat.op = o} \cup ChainRules]

(* labeling, then the reducer's _kids calls, on one tree per rule *)
InitKids == InitLabel(PatternTrees, JunkValues) /\ InitFunc

NextKids ==
  \/ LabelEnter
  \/ LabelCall
  \/ LabelMatch
  \/ LabelFatal
  \/ \E p \in 1..Len(nodes) : \E r \in RulesFor[nodes[p].op] : KidsCall(p, r)

SpecKids == InitKids /\ [][NextKids]_vars

(* the slot table over a sequence of functions *)
InitVreg == InitNoTree /\ InitFunc

NextVreg ==
  \/ \E n \in 0..MaxCalls : FunctionBegin(n, <<>>)
  \/ FunctionGenerated
  \/ \E reg \in Symbols : GetVregSlot(reg)
  \/ FunctionEnd

SpecVreg == InitVreg /\ [][NextVreg]_vars

(* what function() prints and stores, over its arguments *)
NextFunc ==
  \/ \E n \in 0..MaxCalls, ps \in ParamLists : FunctionBegin(n, ps)
  \/ Local(2, 2)
  \/ FunctionGenerated
  \/ FunctionEnd

SpecFunc == InitVreg /\ [][NextFunc]_vars

(* the locals gencode() announces, over their types *)
NextLocal ==
  \/ \E n \in 0..MaxCalls : FunctionBegin(n, <<>>)
  \/ \E ty \in LocalTypes : Local(ty.size, ty.align)
  \/ FunctionGenerated
  \/ FunctionEnd

SpecLocal == InitVreg /\ [][NextLocal]_vars

(* the printed function called on the machine *)
NextExec ==
  \/ \E n \in 0..MaxCalls : FunctionBegin(n, <<>>)
  \/ Local(2, 2)
  \/ FunctionGenerated
  \/ FunctionEnd
  \/ MachineCall
  \/ MachineStep
  \/ \E w \in BodyWords : BodyPush(w)
  \/ BodyPop
  \/ \E i \in 0..(CALLEE_SAVE_VREGS - 1), w \in BodyWords : BodyStore(i, w)
  \/ BodyEnd

SpecExec == InitVreg /\ [][NextExec]_vars


(* a call site, ARG statements and a CALL, run with the printed function   *)
(* as the callee                                                           *)
NextCall ==
  \/ \E n \in 0..MaxCalls : FunctionBegin(n, <<>>)
  \/ FunctionGenerated
  \/ FunctionEnd
  \/ \E w \in BodyWords : SiteArg(w)
  \/ MachineCall
  \/ MachineStep
  \/ BodyEnd

SpecCall == InitVreg /\ [][NextCall]_vars

(* the code of a 32-bit sum run on the machine *)
NextAdd4 ==
  \/ \E a \in Vals32, b \in Vals32, ka \in OperandKinds, kb \in OperandKinds, x \in BodyWords :
       Add4Begin(a, b, ka, kb, x)
  \/ CpuStep

SpecAdd4 == InitVreg /\ [][NextAdd4]_vars

(* the constants of a compilation *)
NextConst == \E size \in ConstSizes, v \in ConstValues : Defconst(size, v)

SpecConst == InitVreg /\ [][NextConst]_vars

(* the emission sites of one output *)
NextEmit ==
  \E r \in LabelRules, sym \in {NoSym, 1, 2}, g \in StrayNames \cup {NoSym, 2} :
    EmitSite(r, sym, g)

SpecEmit == InitVreg /\ [][NextEmit]_vars

(* a function with parameters, called with its arguments: the call is      *)
(* compiled for the function as it is declared                             *)
NextArgs ==
  \/ \E n \in 0..MaxCalls, ps \in ArgLists : site = <<>> /\ FunctionBegin(n, ps)
  \/ FunctionGenerated
  \/ FunctionEnd
  \/ SiteArgNext
  \/ SiteCall
  \/ MachineStep
  \/ BodyEnd

SpecArgs == InitVreg /\ [][NextArgs]_vars

(* the relational templates, their operands in place *)
NextCmp ==
  \/ \E r \in Cmp1Rules \cup Cmp2Rules \cup CmpMemRules, l \in {1, 2, 65535}, rt \in {1, 2, 65535},
        x \in BodyWords : CompareBegin(r, l, rt, x)
  \/ CodeStep

SpecCmp == InitVreg /\ [][NextCmp]_vars

(* labeling, then the code of the tree, run *)
InitBin == InitBinLabel /\ InitFunc

NextBin ==
  \/ LabelEnter
  \/ LabelCall
  \/ LabelMatch
  \/ EmitTree
  \/ CodeStep

SpecBin == InitBin /\ [][NextBin]_vars

(* the pseudo-registers of a function, read and stored by emit2 *)
NextSpill ==
  \/ \E n \in 0..MaxCalls : FunctionBegin(n, <<>>)
  \/ FunctionGenerated
  \/ \E reg \in Symbols : \E t \in VregTrees(reg) : Emit2Vreg(reg, t)
  \/ FunctionEnd

SpecSpill == InitVreg /\ [][NextSpill]_vars
(* ---------------------------------------------------------------------- *)
(* Properties                                                             *)
(* ---------------------------------------------------------------------- *)
Labeled == pc = "done"

(* C1: cost-minimality of _label. When _label(root) has returned, the cost *)
(* recorded for every node and every nonterminal is the minimum total cost *)
(* over all derivations by pattern rules and chain rules, and it is the    *)
(* sentinel 0x7fff exactly when the subtree has no derivation.             *)
CostMinimal ==
  Labeled =>
    \A n \in 1..Len(nodes) : \A nt \in NTs :
      x_state[n].cost[nt] = Derive(nodes, n, nt)

(* a two-level sum is labeled: stmt and reg are derived, con2 is not *)
CostMinimalWitness ==
  /\ Labeled
  /\ nodes[root].op = ADDI2
  /\ Len(nodes) = 5
  /\ x_state[root].cost[_stmt_NT] \in 1..(MaxCost - 1)
  /\ x_state[root].cost[_stmt_NT] = x_state[root].cost[_reg_NT]
  /\ x_state[root].cost[_con2_NT] = MaxCost

(* C2: consumed children are labeled. For every node n and nonterminal nt  *)
(* with a finite recorded cost, every subtree that _kids hands back for    *)
(* r = _rule(state(n), nt) exists, is labeled, and has a finite recorded   *)
(* cost for the nonterminal _nts[r][i] its position demands.               *)
KidsLabeled ==
  Labeled =>
    \A n \in 1..Len(nodes) : \A nt \in NTs :
      x_state[n].cost[nt] < MaxCost =>
        LET r == _rule(x_state[n], nt) IN
          /\ r \in 1..Len(_nts)
          /\ ~_kids(nodes, n, r).fatal
          /\ \A w \in _kids(nodes, n, r).writes :
               /\ w[2] # NULL
               /\ w[1] + 1 \in 1..Len(_nts[r])
               /\ x_state[w[2]].alloc
               /\ x_state[w[2]].cost[_nts[r][w[1] + 1]] < MaxCost

(* the rule chosen at the root consumes a grandchild *)
KidsLabeledWitness ==
  /\ Labeled
  /\ x_state[root].cost[_stmt_NT] < MaxCost
  /\ \E w \in _kids(nodes, root, _rule(x_state[root], _stmt_NT)).writes :
       /\ w[2] \notin {NULL, root, nodes[root].kids[1], nodes[root].kids[2]}
       /\ x_state[w[2]].cost[_nts[_rule(x_state[root], _stmt_NT)][w[1] + 1]] < MaxCost

(* C3: rule and operand pairing. For every external rule number r of the   *)
(* _decode_* tables (1..399), _kids has a case for r and writes exactly    *)
(* the entries kids[0] .. kids[len-1], len the number of nonterminals      *)
(* _nts[r] lists, each with a node of the tree.                            *)
KidsMatchNts ==
  /\ ExternalRules = 1..Len(_nts)
  /\ kids_out.eruleno # 0 =>
       /\ ~kids_out.fatal
       /\ {w[1] : w \in kids_out.writes} = 0..(Len(_nts[kids_out.eruleno]) - 1)
       /\ Cardinality(kids_out.writes) = Len(_nts[kids_out.eruleno])
       /\ \A w \in kids_out.writes : w[2] \in 1..Len(nodes)

(* _kids was called for a rule with three operands *)
KidsMatchNtsWitness ==
  /\ kids_out.eruleno # 0
  /\ Len(_nts[kids_out.eruleno]) = 3
  /\ {w[1] : w \in kids_out.writes} = {0, 1, 2}

(* the slot a Symbol got when it was first referenced in this function *)
FirstSlot(reg) == refs[CHOOSE i \in 1..Len(refs) : refs[i].sym = reg].slot

(* C4: slot stability. Between two function() entries every get_vreg_slot  *)
(* call with a Symbol returns the slot the first call with that Symbol     *)
(* returned, whatever was referenced in between and also when the Symbol   *)
(* was first referenced with the table full.                               *)
SlotStable ==
  call.reg # NULL => call.reg \in Referenced /\ call.ret = FirstSlot(call.reg)

(* a Symbol is referenced again after the table filled up and overflowed *)
SlotStableWitness ==
  /\ Len(refs) = MAX_VREG_SLOTS + 2
  /\ call.reg = refs[3].sym
  /\ call.ret = 2
  /\ FirstSlot(refs[MAX_VREG_SLOTS + 1].sym) = 0

(* C5: slot separation. While at most MAX_VREG_SLOTS distinct Symbols have *)
(* been referenced since function() was entered, the k-th distinct Symbol  *)
(* (k from 0) has slot k, so different Symbols have different slots.       *)
SlotSeparate ==
  Len(refs) <= MAX_VREG_SLOTS =>
    /\ \A k \in 1..Len(refs) : refs[k].slot = k - 1 /\ vreg_symbols[k - 1] = refs[k].sym
    /\ \A j, k \in 1..Len(refs) : j # k => refs[j].slot # refs[k].slot
    /\ call.reg # NULL => call.reg = refs[call.ret + 1].sym

(* the last free slot is handed out *)
SlotSeparateWitness ==
  /\ Len(refs) = MAX_VREG_SLOTS
  /\ call.reg = refs[MAX_VREG_SLOTS].sym
  /\ call.ret = MAX_VREG_SLOTS - 1

(* C6: exhaustion policy. A get_vreg_slot call made with all               *)
(* MAX_VREG_SLOTS slots handed out, for a Symbol that is not in the table, *)
(* returns 0, touches only vreg_symbols[0..31] and leaves vreg_symbols     *)
(* and next_vreg_slot as they were.                                        *)
ExhaustionPolicy ==
  [][(/\ fpc = "emitcode"
      /\ fpc' = "emitcode"
      /\ next_vreg_slot = MAX_VREG_SLOTS
      /\ \A i \in Slots : vreg_symbols[i] # call'.reg)
     => (/\ call'.ret = 0
         /\ call'.touched \subseteq Slots
         /\ vreg_symbols' = vreg_symbols
         /\ next_vreg_slot' = MAX_VREG_SLOTS)]_vars

(* the 33rd Symbol was referenced and got slot 0 *)
ExhaustionPolicyWitness ==
  /\ Len(refs) = MAX_VREG_SLOTS + 1
  /\ call.reg = refs[MAX_VREG_SLOTS + 1].sym
  /\ call.ret = 0
  /\ next_vreg_slot = MAX_VREG_SLOTS
  /\ \A i \in Slots : vreg_symbols[i] = refs[i + 1].sym

(* C7: slot-table reset. When function() has reset the table and nothing   *)
(* was referenced yet the table is empty and next_vreg_slot is 0; inside a *)
(* function the table holds only Symbols referenced in that function, and  *)
(* the first Symbol referenced has slot 0.                                 *)
SlotReset ==
  fpc = "emitcode" =>
    /\ refs = <<>> => next_vreg_slot = 0 /\ vreg_symbols = EmptyTable
    /\ \A i \in Slots : vreg_symbols[i] # NULL => vreg_symbols[i] \in Referenced
    /\ next_vreg_slot <= Len(refs)
    /\ refs # <<>> => refs[1].slot = 0

(* a function compiled after another one, numbering its pseudo-registers   *)
(* downwards, starts at slot 0                                             *)
SlotResetWitness ==
  /\ fpc = "emitcode"
  /\ f_in.later
  /\ Len(refs) = 1
  /\ refs[1] = [sym |-> NSyms, slot |-> 0]
  /\ next_vreg_slot = 1

(* the lines of the frame protocol among those printed *)
FrameLines ==
  SelectSeq(out, LAMBDA l : l.op \in {"PUSH_FP", "PUSH_ADDR", "TSF", "TFS",
                                        "POP_ADDR", "POP_FP", "RET"})

Printed == fpc = "idle" /\ out # <<>>

(* C8: callee-save emission. A function() call with ncalls = 0 prints no   *)
(* PUSH_ADDR and no POP_ADDR; with ncalls >= 1 it prints PUSH_ADDR for     *)
(* _vreg0, _vreg1, _vreg2, _vreg3 in that order after PUSH_FP and before   *)
(* TSF, and POP_ADDR for _vreg3, _vreg2, _vreg1, _vreg0 in that order      *)
(* after TFS and before POP_FP and RET, and no other such line.            *)
CalleeSave ==
  Printed =>
    FrameLines =
      IF f_in.ncalls = 0
      THEN <<Line("PUSH_FP", NoArg), Line("TSF", NoArg),
             Line("TFS", NoArg), Line("POP_FP", NoArg), Line("RET", NoArg)>>
      ELSE <<Line("PUSH_FP", NoArg),
             Line("PUSH_ADDR", 0), Line("PUSH_ADDR", 1),
             Line("PUSH_ADDR", 2), Line("PUSH_ADDR", 3),
             Line("TSF", NoArg), Line("TFS", NoArg),
             Line("POP_ADDR", 3), Line("POP_ADDR", 2),
             Line("POP_ADDR", 1), Line("POP_ADDR", 0),
             Line("POP_FP", NoArg), Line("RET", NoArg)>>

(* a function with a call site and locals was printed *)
CalleeSaveWitness ==
  /\ Printed
  /\ f_in.ncalls >= 1
  /\ f_in.maxoffset >= 1
  /\ Len(FrameLines) = 13
  /\ Len(out) > 14

(* C9: prologue/epilogue round trip. When the printed function has run to  *)
(* its RET, with any body that pushes and pops below FP and stores into    *)
(* pseudo-register slots, FP is the caller's FP, SP is where it was before *)
(* the CALL, the address RET took is the one CALL pushed, and _vreg0 ..    *)
(* _vreg3 hold their values at entry when the function saved them.         *)
RoundTrip ==
  /\ (Running /\ out[machine.ip].op = "RET") =>
       machine.SP = StackTop - 2 /\ machine.mem[machine.SP] = RetAddr
  /\ Returned =>
       /\ machine.ret = RetAddr
       /\ machine.SP = StackTop
       /\ machine.FP = CallerFP
       /\ f_in.ncalls > 0 => machine.vreg = EntryVreg

(* a function with calls and locals returned after its body overwrote a    *)
(* saved pseudo-register and left a word on the stack                      *)
RoundTripWitness ==
  /\ Returned
  /\ f_in.ncalls >= 1
  /\ f_in.maxoffset >= 1
  /\ machine.body = MaxBody
  /\ machine.vreg = EntryVreg
  /\ machine.mem[StackTop - 4] = CallerFP
  /\ machine.mem[StackTop - 2 * (3 + CALLEE_SAVE_VREGS + f_in.maxoffset)] = 7

(* size rounded up to the next even number *)
Even2(s) == IF s % 2 = 0 THEN s ELSE s + 1

RECURSIVE SumBefore(_, _)
SumBefore(params, i) ==
  IF i = 1 THEN 0 ELSE SumBefore(params, i - 1) + Even2(params[i - 1].caller_size)

DigitValue(c) == (CHOOSE d \in 1..10 : DigitChar[d] = c) - 1

RECURSIVE Decimal(_)
Decimal(s) ==
  IF Len(s) = 0 THEN 0
  ELSE 10 * Decimal(SubSeq(s, 1, Len(s) - 1)) + DigitValue(s[Len(s)])

LocalRange(l) == {l.x.offset + b : b \in 0..(l.size - 1)}

LocalAlign(l) == IF l.align < 2 THEN 2 ELSE l.align

(* C11: every local announced since function() reset offset has a negative *)
(* x.offset whose magnitude is a multiple of 2 and of the alignment of its *)
(* type, strictly greater than the magnitude of every earlier local's, and *)
(* its bytes lie below FP and apart from the bytes of every other local.   *)
LocalOffsets ==
  \A i \in 1..Len(locals) :
    /\ locals[i].x.offset < 0
    /\ (-locals[i].x.offset) % 2 = 0
    /\ (-locals[i].x.offset) % LocalAlign(locals[i]) = 0
    /\ \A a \in LocalRange(locals[i]) : a < 0
    /\ \A j \in 1..(i - 1) :
         /\ -locals[i].x.offset > -locals[j].x.offset
         /\ LocalRange(locals[i]) \cap LocalRange(locals[j]) = {}

(* a char, a long and an array of three chars, announced in that order *)
LocalOffsetsWitness ==
  /\ Len(locals) = 3
  /\ locals[1].size = 1
  /\ locals[2].size = 4
  /\ locals[3].size = 3
  /\ locals[3].x.offset = -10

(* ---------------------------------------------------------------------- *)
(* C12                                                                    *)
(* ---------------------------------------------------------------------- *)
(* the operators whose case in _label holds no rule *)
EmptyCases == {o \in LabelOps : CaseOf[o].rules = <<>>}

OnStack(n) == \E i \in 1..Len(stack) : stack[i].a = n

(* _label(n) was called and has returned *)
ReturnedFrom(n) == x_state[n].alloc /\ ~OnStack(n)

AllInfinite(n) == \A nt \in NTs : x_state[n].cost[nt] = MaxCost

InternalOf(e) ==
  CHOOSE i \in 0..(Len(_decode[_string[e].lhs]) - 1) : _decode[_string[e].lhs][i + 1] = e

(* the chain rules that lead from nonterminal from to nonterminal to: what *)
(* they add to the cost, and the rule recorded for to                      *)
RECURSIVE Reach(_, _)
Reach(from, to) ==
  IF from = to THEN [ok |-> TRUE, cost |-> 0, last |-> 0]
  ELSE LET S == {e \in ChainsTo[to] : Reach(from, _string[e].pat.nt).ok} IN
       IF S = {} THEN [ok |-> FALSE, cost |-> 0, last |-> 0]
       ELSE LET e == CHOOSE x \in S : TRUE IN
            [ok |-> TRUE,
             cost |-> Reach(from, _string[e].pat.nt).cost + ChainCost(e),
             last |-> InternalOf(e)]

ReachTab == [from \in NTs |-> [to \in NTs |-> Reach(from, to)]]

(* the total each rule of the case of node n, by position, reaches for nt, *)
(* directly or through chain rules; 0x7fff when it does not derive nt      *)
Totals(n, nt) ==
  LET rs == CaseOf[nodes[n].op].rules IN
  [i \in 1..Len(rs) |->
     IF CondHolds(nodes, n, rs[i]) /\ ReachTab[rs[i].nt][nt].ok
     THEN LET c == RuleCost(nodes, x_state, n, rs[i]) + ReachTab[rs[i].nt][nt].cost
          IN IF c < MaxCost THEN c ELSE MaxCost
     ELSE MaxCost]

(* the rules of the lowest finite total *)
Best(n, nt) ==
  LET t == Totals(n, nt) IN
  {i \in DOMAIN t : t[i] < MaxCost /\ \A j \in DOMAIN t : t[i] <= t[j]}

(* the earliest of them in the order of the case *)
FirstBest(n, nt) ==
  LET b == Best(n, nt) IN CHOOSE i \in b : \A j \in b : i <= j

(* the rule that rule i of the case leaves in the field of nt *)
RuleLeft(n, i, nt) ==
  IF CaseOf[nodes[n].op].rules[i].nt = nt
  THEN CaseOf[nodes[n].op].rules[i].irule
  ELSE ReachTab[CaseOf[nodes[n].op].rules[i].nt][nt].last

(* C13: tie-breaking. After _label, for every node and nonterminal that a  *)
(* rule of the node's case derives, the recorded cost is the lowest total  *)
(* and the recorded rule is the one left by the earliest rule, in the      *)
(* order of the case, that reaches this total: a later rule or closure of  *)
(* the same total does not replace it.                                     *)
TieBreak ==
  Labeled =>
    \A n \in 1..Len(nodes) : \A nt \in NTs :
      (nodes[n].op \in LabelOps /\ Best(n, nt) # {}) =>
        LET i == FirstBest(n, nt) IN
          /\ x_state[n].cost[nt] = Totals(n, nt)[i]
          /\ x_state[n].rule[nt] = RuleLeft(n, i, nt)

(* a labeled sum where two rules that leave different records tie for reg  *)
TieBreakWitness ==
  /\ Labeled
  /\ nodes[root].op = ADDI2
  /\ \E i \in Best(root, _reg_NT) : \E j \in Best(root, _reg_NT) :
       /\ i < j
       /\ RuleLeft(root, i, _reg_NT) # RuleLeft(root, j, _reg_NT)
       /\ x_state[root].rule[_reg_NT] = RuleLeft(root, i, _reg_NT)

(* ---------------------------------------------------------------------- *)
(* C14                                                                    *)
(* ---------------------------------------------------------------------- *)
(* C14: the rule selector. After _label, for every node and every goal     *)
(* nonterminal in 1..8, _rule returns the external number of the rule the  *)
(* labeler recorded as winner when the goal's cost is finite, and 0 when   *)
(* no rule was ever recorded for the goal (its cost is still 0x7fff).      *)
RuleSelector ==
  Labeled =>
    \A n \in 1..Len(nodes) : \A nt \in NTs :
      /\ x_state[n].cost[nt] < MaxCost =>
           _rule(x_state[n], nt) = _decode[nt][RuleLeft(n, FirstBest(n, nt), nt) + 1]
      /\ x_state[n].cost[nt] = MaxCost => _rule(x_state[n], nt) = 0

(* ---------------------------------------------------------------------- *)
(* C15                                                                    *)
(* ---------------------------------------------------------------------- *)
(* C15: argument cleanup. For a call site of k >= 1 ARG statements and a   *)
(* CALL, once the callee has run its epilogue and RET, and the code of the *)
(* call site is at its end, SP is back at the value it had before the      *)
(* first ARG pushed.                                                       *)
ArgCleanup ==
  (Returned /\ machine.nargs >= 1) => machine.SP = StackTop

(* ---------------------------------------------------------------------- *)
(* C16                                                                    *)
(* ---------------------------------------------------------------------- *)
(* (a + b) mod 2^32, by halves *)
Sum32(a, b) ==
  V32((a.hi + b.hi + (a.lo + b.lo) \div 65536) % 65536, (a.lo + b.lo) % 65536)

(* C16: 32-bit add. When the code of a + b has run (the left operand, the  *)
(* right operand, each leaving one half on the stack and the other in AC,  *)
(* then the template of ADDI4/ADDU4), the word on top of the stack and AC  *)
(* are the two halves of (a + b) mod 2^32, and the stack below is what it  *)
(* was; 123456 + 654321 gives 777777.                                      *)
Add32 ==
  CpuDone =>
    /\ cpu.stk = <<cpu.x, Sum32(cpu.a, cpu.b).lo>>
    /\ cpu.AC = Sum32(cpu.a, cpu.b).hi
    /\ (cpu.a = V32(1, 57920) /\ cpu.b = V32(9, 64497)) =>
         cpu.AC * 65536 + cpu.stk[Len(cpu.stk)] = 777777

(* ---------------------------------------------------------------------- *)
(* C17                                                                    *)
(* ---------------------------------------------------------------------- *)
(* the nodes of the subtree at n *)
RECURSIVE SubNodes(_)
SubNodes(n) ==
  {n} \cup UNION {SubNodes(nodes[n].kids[i]) :
                    i \in {j \in 1..Len(nodes[n].kids) : nodes[n].kids[j] # NULL}}

(* the value of n is held in a register: reg is derived, and nothing in    *)
(* the subtree is a constant or an address                                 *)
RegisterHeld(n) ==
  /\ x_state[n].cost[_reg_NT] < MaxCost
  /\ \A m \in SubNodes(n) :
       \A nt \in {_con2_NT, _con1_NT, _con4_NT, _conN_NT, _addr_NT, _faddr_NT} :
         x_state[m].cost[nt] = MaxCost

NtLeaf(nt) == [op |-> 0, nt |-> nt, kids |-> <<>>]

PrintedBy(k) ==
  SubSeq(text.lines, text.calls[k].at + 1,
         IF k = Len(text.calls) THEN Len(text.lines) ELSE text.calls[k + 1].at)

(* v mod 2^(8*s) for a value v in 0 .. 2^31 - 1 *)
ModSize(v, s) == IF s >= 4 THEN v ELSE v % Pow2(8 * s)

RECURSIVE LittleEndian(_, _)
LittleEndian(bytes, i) ==
  IF i > Len(bytes) THEN 0
  ELSE bytes[i].arg * Pow2(8 * (i - 1)) + LittleEndian(bytes, i + 1)

(* C18: little-endian constants. A call of defconst with size s in         *)
(* {1, 2, 4} prints exactly s .byte directives, the i-th (from 0) carrying *)
(* (v >> 8*i) & 0xFF, so that the bytes weighted by 256^i sum up to        *)
(* v mod 2^(8*s); a call with any other size runs into the failing         *)
(* assertion and prints nothing.                                           *)
LittleEndianConst ==
  \A k \in 1..Len(text.calls) :
    LET c == text.calls[k]
        p == PrintedBy(k)
    IN IF c.size \in {1, 2, 4}
       THEN /\ Len(p) = c.size
            /\ \A i \in 1..Len(p) :
                 p[i].op = ".byte" /\ p[i].arg = (c.v \div Pow2(8 * (i - 1))) % 256
            /\ LittleEndian(p, 1) = ModSize(c.v, c.size)
            /\ k = Len(text.calls) => ~text.aborted
       ELSE /\ p = <<>>
            /\ k = Len(text.calls)
            /\ text.aborted

(* a 16-bit and a 32-bit constant were defined, low byte first *)
LittleEndianConstWitness ==
  /\ Len(text.calls) = 2
  /\ text.calls[1] = [size |-> 2, v |-> 4660, at |-> 0]
  /\ text.calls[2] = [size |-> 4, v |-> 305419896, at |-> 2]
  /\ text.lines = <<Line(".byte", 52), Line(".byte", 18), Line(".byte", 120),
                    Line(".byte", 86), Line(".byte", 52), Line(".byte", 18)>>

(* ---- C19 ---- *)

(* the label definitions of the output, in order *)
LabelDefs == SelectSeq(text.lines, LAMBDA l : l.op = "label")

(* C19: within one output no label is defined twice: any two label         *)
(* definitions, of one emission site or of two, define different names     *)
UniqueLabels ==
  \A i \in 1..Len(LabelDefs), j \in 1..Len(LabelDefs) :
    i # j => LabelDefs[i].arg # LabelDefs[j].arg

(* ---- C20 ---- *)

(* the number of ways from the root down to node n; the nodes are in       *)
(* post-order, so a parent has the larger index                            *)
RECURSIVE Paths(_)
Paths(n) ==
  IF n = root THEN 1
  ELSE LET slots == {pk \in ((n + 1)..Len(nodes)) \X {1, 2} : nodes[pk[1]].kids[pk[2]] = n}
           from[pk \in slots] == Paths(pk[1])
           RECURSIVE Sum(_)
           Sum(S) == IF S = {} THEN 0
                     ELSE LET x == CHOOSE y \in S : TRUE IN from[x] + Sum(S \ {x})
       IN Sum(slots)

(* the node a step calls _label for, NULL when the step is no call *)
Called == IF Len(stack') > Len(stack) THEN stack'[Len(stack')].a ELSE NULL

RECURSIVE Relabel(_, _, _)
Relabel(ns, n, j) ==
  IF n = 0 THEN [i \in 1..Len(ns) |-> NoState]
  ELSE LET xs == Allocate(Relabel(ns, n - 1, j), n, j)
       IN [xs EXCEPT ![n] = ApplyRules(ns, xs, n, @, CaseOf[ns[n].op].rules, 1)]

(* C21: labeling the same tree a second time gives the same cost and rule  *)
(* records at every node, whatever the allocator handed out                *)
Determinism ==
  pc = "done" => \A j \in JunkValues : Relabel(nodes, Len(nodes), j) = x_state

(* the part of C21 about the costs alone *)
DeterminismCosts ==
  pc = "done" =>
    \A j \in JunkValues : \A n \in 1..Len(nodes) :
      Relabel(nodes, Len(nodes), j)[n].cost = x_state[n].cost

(* ---- C22 ---- *)

(* the node whose case is about to run: its children are labeled *)
AtMatch ==
  /\ pc = "run"
  /\ nodes[Top.a].op \in LabelOps
  /\ Top.i = Len(CaseOf[nodes[Top.a].op].labels)

(* the record of the node after the first k rules of its case *)
AfterRules(k) ==
  ApplyRules(nodes, x_state, Top.a, x_state[Top.a],
             SubSeq(CaseOf[nodes[Top.a].op].rules, 1, k), 1)

(* no cost of q is above the one of p *)
NotRaised(p, q) == \A nt \in NTs : q.cost[nt] <= p.cost[nt]

(* C22: the costs of a node start at 0x7fff and no rule of its case, with  *)
(* its closure calls and its copy from a common subexpression, stores a    *)
(* cost above the one held before                                          *)
CostMonotone ==
  AtMatch =>
    /\ \A nt \in NTs : x_state[Top.a].cost[nt] = MaxCost
    /\ \A k \in 1..Len(CaseOf[nodes[Top.a].op].rules) :
         NotRaised(AfterRules(k - 1), AfterRules(k))
    /\ nodes[Top.a].cse # NULL =>
         NotRaised(x_state[Top.a], RecalcCopy(x_state[Top.a], x_state[nodes[Top.a].cse]))

(* a load of a common subexpression is labeled: the cost of con2 was       *)
(* copied, reg and stmt were lowered by the rule and its closure           *)
CostMonotoneWitness ==
  /\ pc = "done"
  /\ nodes[root].cse # NULL
  /\ nodes[root].op = INDIRI2
  /\ x_state[root].cost[_con2_NT] = 0
  /\ x_state[root].cost[_reg_NT] = 0
  /\ x_state[root].cost[_stmt_NT] = 0
  /\ x_state[root].cost[_addr_NT] = MaxCost

(* ---- C23 ---- *)

(* cost[to] <= cost[from] + k unless from has no derivation *)
ChainHolds(p, to, from, k) ==
  p.cost[from] < MaxCost => p.cost[to] <= p.cost[from] + k

(* the record is closed under the five chain rules, and running the        *)
(* closure function of any nonterminal once more changes nothing           *)
ClosedRecord(p) ==
  /\ ChainHolds(p, _stmt_NT, _reg_NT, 0)
  /\ ChainHolds(p, _reg_NT, _con1_NT, 1)
  /\ ChainHolds(p, _reg_NT, _con2_NT, 1)
  /\ ChainHolds(p, _reg_NT, _con4_NT, 3)
  /\ ChainHolds(p, _addr_NT, _faddr_NT, 0)
  /\ \A nt \in NTs : p.cost[nt] < MaxCost => Closure(p, nt, p.cost[nt]) = p

(* C23: once _label(a) has returned, the record of a is closed under the   *)
(* chain rules                                                             *)
ChainClosed == \A n \in 1..Len(nodes) : ReturnedFrom(n) => ClosedRecord(x_state[n])

(* a local's address is labeled: faddr and, by its closure, addr at cost   *)
(* 0, reg and, by its closure, stmt at cost 1                              *)
ChainClosedWitness ==
  /\ pc = "done"
  /\ nodes[root].op = ADDRLP2
  /\ x_state[root].cost[_faddr_NT] = 0
  /\ x_state[root].cost[_addr_NT] = 0
  /\ x_state[root].cost[_reg_NT] = 1
  /\ x_state[root].cost[_stmt_NT] = 1

(* ---- C24 ---- *)

(* C24: after the callee has returned, every slot the caller held a value  *)
(* in holds that value, whether or not the callee has call sites           *)
VregPreserved ==
  Returned => \A i \in DOMAIN EntryVreg : machine.vreg[i] = EntryVreg[i]

(* the part of C24 the prologue and epilogue provide: a callee that has    *)
(* call sites gives _vreg0 .. _vreg3 back                                  *)
VregPreservedSaved ==
  (Returned /\ f_in.ncalls > 0) => \A i \in DOMAIN EntryVreg : machine.vreg[i] = EntryVreg[i]

(* ---- C25 ---- *)

(* the pseudo-register nodes the pattern pat covers at node a *)
RECURSIVE PatVregs(_, _, _)
PatVregs(ns, a, pat) ==
  IF pat.nt # 0 THEN {}
  ELSE IF pat.op = VREGP THEN {a}
  ELSE UNION {PatVregs(ns, ns[a].kids[i], pat.kids[i]) : i \in 1..Len(pat.kids)}

(* C25: for every node a rule with a '#' template was chosen at, emit2     *)
(* prints at least one line, and for each pseudo-register the rule's       *)
(* pattern covers a line that writes (the ASGN rules) or reads (the        *)
(* others) the slot get_vreg_slot gives for its Symbol                     *)
PeepholeCovered ==
  \A i \in 1..Len(text.calls) :
    LET c == text.calls[i] IN
      /\ c.lines # <<>>
      /\ PatVregs(nodes, c.p, _string[c.rule].pat) # {}
      /\ \A v \in PatVregs(nodes, c.p, _string[c.rule].pat) :
           \E k \in 1..Len(c.lines) :
             /\ c.lines[k].op = IF _string[c.rule].lhs = _stmt_NT THEN "STA" ELSE "LDA"
             /\ c.lines[k].arg =
                  VregName(get_vreg_slot(vreg_symbols, next_vreg_slot, Sym(nodes, v)).ret)

(* emit2 has printed the sum of a pseudo-register and a constant (rule 12) *)
(* and a write of another pseudo-register                                  *)
PeepholeCoveredWitness ==
  \E i, j \in 1..Len(text.calls) :
    /\ text.calls[i].rule = 12
    /\ text.calls[i].lines = <<Line("LDA", VregName(0)), Line("STA", "_tmp"),
                               Line("LDI", 1), Line("ADD", "_tmp")>>
    /\ text.calls[j].rule = 26
    /\ text.calls[j].lines = <<Line("STA", VregName(1))>>

(* ---- C26 ---- *)

(* C26: once the prologue has run, the cell at FP plus the offset          *)
(* function() gave parameter i holds the word the caller pushed last for   *)
(* argument i, for every parameter of the function                         *)
ParamsOnStack ==
  AtBody =>
    \A i \in 1..Len(sym_x) :
      /\ machine.FP + sym_x[i].callee.offset \in DOMAIN machine.mem
      /\ ArgOf(machine.mem[machine.FP + sym_x[i].callee.offset]) = i

(* the part of C26 without 4-byte parameters *)
ParamsOnStackWords ==
  (AtBody /\ \A i \in 1..Len(f_in.params) : f_in.params[i].caller_size <= 2)
    => \A i \in 1..Len(sym_x) :
         machine.mem[machine.FP + sym_x[i].callee.offset] = ArgWord(i)

(* ---- C28 ---- *)

(* C28: a relational template that ran with its operands in place has      *)
(* taken the branch exactly when left REL right holds, over (reg,reg) of    *)
(* 1 and 2 bytes and over (reg,INDIR(addr))                                 *)
CompareOrder ==
  (CpuDone /\ "rule" \in DOMAIN cpu) => (cpu.taken <=> Holds(cpu.rule, cpu.left, cpu.right))

(* the same without the ordering rules of 1 byte over (reg,reg) *)
CompareOrderWide ==
  (CpuDone /\ "rule" \in DOMAIN cpu
     /\ (cpu.rule \in Cmp1Rules => RelOf(cpu.rule) \in {"EQ", "NE"}))
    => (cpu.taken <=> Holds(cpu.rule, cpu.left, cpu.right))

(* the ordering rules of 1 byte over (reg,reg) branch on right REL left *)
CompareOrderSwapped ==
  (CpuDone /\ "rule" \in DOMAIN cpu /\ cpu.rule \in Cmp1Rules)
    => (cpu.taken <=> Holds(cpu.rule, cpu.right, cpu.left))

(* ---- C27 ---- *)

(* C27: in the code of a tree whose root rule is over (reg,reg) and POPs,   *)
(* the POP of the root's template retrieves the value of the left operand,  *)
(* and once the code has run the stack is as deep as before                 *)
StackBalanced ==
  "root" \in DOMAIN cpu =>
    /\ (JustPopped /\ cpu.ip - 1 > Len(cpu.prog) - Len(PopTemplate(cpu.root, 0)))
         => cpu.AC = cpu.left
    /\ CpuDone => Len(cpu.stk) = Len(Below)

(* what the code does: every POP takes a word of the surrounding code *)
StackDrained ==
  ("root" \in DOMAIN cpu /\ CpuDone) => Len(cpu.stk) < Len(Below)

(* ---- C29 ---- *)

(* C29: every _vregN label in the lines emit2 prints names a storage word   *)
(* that progbeg has declared                                                *)
SpillDeclared ==
  \A i \in 1..Len(text.lines) :
    (text.lines[i].op \in {"LDA", "STA"} /\ text.lines[i].arg[1] = "_vreg")
      => text.lines[i].arg \in Declared

(* what holds instead: the labels declared are those of the slots below   *)
(* VREG_WORDS                                                               *)
SpillDeclaredFirst ==
  \A i \in 1..Len(text.lines) :
    (text.lines[i].op \in {"LDA", "STA"} /\ text.lines[i].arg[1] = "_vreg")
      => (text.lines[i].arg \in Declared <=> text.lines[i].arg[2] < VREG_WORDS)

(* ---- C30 ---- *)

(* the total rule k of the case of the node at hand computes *)
TotalOf(k) == RuleCost(nodes, x_state, Top.a, CaseOf[nodes[Top.a].op].rules[k])

(* C30: every cost of a record is in 0..0x7fff, during the case of a node   *)
(* as well as after it, and a rule whose total is 0x7fff or more leaves the *)
(* record as it was                                                         *)
CostRange ==
  /\ \A n \in 1..Len(nodes) :
       x_state[n].alloc => \A nt \in NTs : x_state[n].cost[nt] \in 0..MaxCost
  /\ AtMatch =>
       \A k \in 1..Len(CaseOf[nodes[Top.a].op].rules) :
         /\ \A nt \in NTs : AfterRules(k).cost[nt] \in 0..MaxCost
         /\ (CondHolds(nodes, Top.a, CaseOf[nodes[Top.a].op].rules[k])
               /\ TotalOf(k) >= MaxCost)
              => AfterRules(k) = AfterRules(k - 1)

(* a rule is tried whose total, two infinite costs and its own, is beyond   *)
(* the 16 bits of the field, after a rule that matched                      *)
CostRangeWitness ==
  /\ AtMatch
  /\ \E k \in 1..Len(CaseOf[nodes[Top.a].op].rules) :
       /\ CondHolds(nodes, Top.a, CaseOf[nodes[Top.a].op].rules[k])
       /\ TotalOf(k) >= 65536
       /\ \E nt \in NTs : AfterRules(k).cost[nt] \in 1..(MaxCost - 1)
====
